---------------------------- MODULE Spec2Model ----------------------------
(***************************************************************************)
(* A model of src/shipley_bot.py: the periodic run (main) that loads the   *)
(* persisted state, builds the player snapshot from the leaderboard feed,  *)
(* runs the decision engine (decide_and_tweet) and saves the state.        *)
(*                                                                         *)
(* Encodings.                                                              *)
(*   - A Python value that may be None is a set with at most one element:  *)
(*     None is {} and the value x is {x}.                                  *)
(*   - A Python string the code inspects character by character (scores,   *)
(*     positions, the thru field, the tee time, the status type) is a      *)
(*     sequence of one-character strings.  Tournament names are only       *)
(*     compared and tested for emptiness and stay TLA+ strings.            *)
(***************************************************************************)
EXTENDS Integers, Sequences, FiniteSets, TLC

VARIABLES
    file,        \* bot_state.json: [exists, data]
    outcome,     \* how the last run of main ended
    loaded,      \* main: what load_state returned in the last run
    state,       \* main: `state` as handed to decide_and_tweet (after the reset)
    player,      \* main: `player`, the snapshot built by get_player_data
    posts,       \* the post_tweet calls of the last run, in order, with results
    new_state,   \* main: `new_state`, what decide_and_tweet returned
    tracked,     \* the event name of the latest run that reached the engine
    changed_from, \* the event name tracked before, when the latest such run saw another one
    hour,        \* main: `hour`, the local hour the last run read from the clock
    log,         \* the calls of the last run that touch the file, the feed or the transport
    history,     \* what the runs since the round or the tournament last changed delivered
    args,        \* the arguments of the latest call of a helper function
    result       \* what that call returned

vars == <<file, outcome, loaded, state, player, posts, new_state, tracked, changed_from,
          hour, log, history, args, result>>

---------------------------------------------------------------------------
(* Optional values and Python truthiness.                                  *)

None == {}

Some(x) == {x}

Get(o) == CHOOSE x \in o : TRUE

\* `x or d` for an optional integer: None and 0 are falsy.
OrInt(o, d) == IF o = None \/ o = Some(0) THEN d ELSE Get(o)

\* Truthiness of an optional tournament name: None and "" are falsy.
TruthyName(o) == o # None /\ o # Some("")

---------------------------------------------------------------------------
(* Strings as sequences of characters.                                     *)

Digits == <<"0", "1", "2", "3", "4", "5", "6", "7", "8", "9">>

LowerLetters == <<"a", "b", "c", "d", "e", "f", "g", "h", "i", "j", "k", "l", "m",
                  "n", "o", "p", "q", "r", "s", "t", "u", "v", "w", "x", "y", "z">>

UpperLetters == <<"A", "B", "C", "D", "E", "F", "G", "H", "I", "J", "K", "L", "M",
                  "N", "O", "P", "Q", "R", "S", "T", "U", "V", "W", "X", "Y", "Z">>

IsDigitCh(c) == \E i \in 1..10 : Digits[i] = c

DigitVal(c) == (CHOOSE i \in 1..10 : Digits[i] = c) - 1

UpperCh(c) ==
    IF \E i \in 1..26 : LowerLetters[i] = c
    THEN UpperLetters[CHOOSE i \in 1..26 : LowerLetters[i] = c]
    ELSE c

LowerCh(c) ==
    IF \E i \in 1..26 : UpperLetters[i] = c
    THEN LowerLetters[CHOOSE i \in 1..26 : UpperLetters[i] = c]
    ELSE c

\* str.upper() and str.lower()
Upper(s) == [i \in 1..Len(s) |-> UpperCh(s[i])]

Lower(s) == [i \in 1..Len(s) |-> LowerCh(s[i])]

\* str.strip(): leading and trailing blanks removed
RECURSIVE LStrip(_)
LStrip(s) == IF s # <<>> /\ Head(s) = " " THEN LStrip(Tail(s)) ELSE s

RECURSIVE RStrip(_)
RStrip(s) ==
    IF s # <<>> /\ s[Len(s)] = " " THEN RStrip(SubSeq(s, 1, Len(s) - 1)) ELSE s

Strip(s) == RStrip(LStrip(s))

\* str.replace(c, "") for a one-character c
RemoveCh(s, c) == SelectSeq(s, LAMBDA x : x # c)

\* `sub in s`
Contains(s, sub) ==
    \E i \in 0..(Len(s) - Len(sub)) : SubSeq(s, i + 1, i + Len(sub)) = sub

\* str.isdigit(): non-empty and every character a digit
IsDigitStr(s) == s # <<>> /\ \A i \in 1..Len(s) : IsDigitCh(s[i])

\* any(c.isdigit() for c in s)
AnyDigit(s) == \E i \in 1..Len(s) : IsDigitCh(s[i])

\* int(s) for a string of digits
RECURSIVE DigitsToInt(_)
DigitsToInt(s) ==
    IF s = <<>> THEN 0
    ELSE 10 * DigitsToInt(SubSeq(s, 1, Len(s) - 1)) + DigitVal(s[Len(s)])

\* str(n) for an integer n
RECURSIVE NatToStr(_)
NatToStr(n) ==
    IF n < 10 THEN <<Digits[n + 1]>>
    ELSE NatToStr(n \div 10) \o <<Digits[(n % 10) + 1]>>

IntToStr(n) == IF n < 0 THEN <<"-">> \o NatToStr(0 - n) ELSE NatToStr(n)

\* int(s): an optional sign and then digits; anything else raises ValueError,
\* which is None here.
ParseInt(s) ==
    IF IsDigitStr(s) THEN Some(DigitsToInt(s))
    ELSE IF s # <<>> /\ Head(s) = "-" /\ IsDigitStr(Tail(s))
         THEN Some(0 - DigitsToInt(Tail(s)))
         ELSE IF s # <<>> /\ Head(s) = "+" /\ IsDigitStr(Tail(s))
              THEN Some(DigitsToInt(Tail(s)))
              ELSE None

\* str.replace(sub, ""): the occurrences of sub, found from the left, removed
RECURSIVE Remove(_, _)
Remove(s, sub) ==
    IF Len(s) < Len(sub) THEN s
    ELSE IF SubSeq(s, 1, Len(sub)) = sub
         THEN Remove(SubSeq(s, Len(sub) + 1, Len(s)), sub)
         ELSE <<Head(s)>> \o Remove(Tail(s), sub)

---------------------------------------------------------------------------
(* Score helpers.                                                          *)

EvenMarkers == {<<"E">>, <<"E", "v", "e", "n">>, <<"-", "-">>, <<>>}

\* Variant of parse_score that removes the minus sign as well.
parse_score_DropsSign(raw) ==
    IF raw = None THEN None
    ELSE LET s == Strip(Get(raw))
         IN  IF s \in EvenMarkers THEN Some(0)
             ELSE ParseInt(RemoveCh(RemoveCh(s, "+"), "-"))

\* parse_score(raw): raw is an optional string
parse_score(raw) ==
    IF raw = None THEN None
    ELSE LET s == Strip(Get(raw))
         IN  IF s \in EvenMarkers THEN Some(0) ELSE ParseInt(RemoveCh(s, "+"))

\* Variant of fmt that writes a positive score without its sign.
fmt_NoPlus(score) ==
    IF score = None THEN <<"E">>
    ELSE IF Get(score) = 0 THEN <<"E">>
    ELSE IntToStr(Get(score))

\* fmt(score): score is an optional integer
fmt(score) ==
    IF score = None THEN <<"E">>
    ELSE IF Get(score) = 0 THEN <<"E">>
    ELSE IF Get(score) > 0 THEN <<"+">> \o IntToStr(Get(score))
    ELSE IntToStr(Get(score))

\* parse_position_num(pos): pos is an optional string
parse_position_num(pos) ==
    IF pos = None \/ pos = Some(<<>>) THEN None
    ELSE ParseInt(Strip(Remove(Remove(Remove(Remove(Remove(Remove(
             Upper(Get(pos)), <<"T">>), <<"-">>), <<"S", "T">>), <<"N", "D">>),
             <<"R", "D">>), <<"T", "H">>)))

---------------------------------------------------------------------------
(* The persisted state.                                                    *)

DEFAULT_STATE ==
    [tournament             |-> None,
     round                  |-> None,
     thru                   |-> None,
     today_score            |-> None,
     total_score            |-> None,
     position               |-> None,
     missed_cut             |-> FALSE,
     tee_time_tweeted_round |-> None,
     round_finish_tweeted   |-> None,
     last_hole_milestone    |-> None,
     last_alert_hole        |-> None]

\* load_state(): the saved record merged over the defaults (save_state writes every
\* key, so the merge of a saved record is the record); the defaults for a missing file.
load_state(f) == IF f.exists THEN f.data ELSE DEFAULT_STATE

\* save_state(state): the file overwritten with the record
save_state(s) == [exists |-> TRUE, data |-> s]

(* The file as text.  A JSON object is a function from its keys to the     *)
(* text of their values: null, true, false, a decimal number, or a string  *)
(* between quotes.  The Python type of a value is given here by its key:   *)
(* missed_cut is a bool, tournament and position are optional strings (the *)
(* position character by character), every other key an optional int.     *)
BoolKeys == {"missed_cut"}

NameKeys == {"tournament"}

TextKeys == {"position"}

\* json.dump of one value
json_dump_value(key, v) ==
    IF key \in BoolKeys THEN (IF v THEN <<"true">> ELSE <<"false">>)
    ELSE IF v = None THEN <<"null">>
    ELSE IF key \in NameKeys THEN <<"\"", Get(v), "\"">>
    ELSE IF key \in TextKeys THEN <<"\"">> \o Get(v) \o <<"\"">>
    ELSE IntToStr(Get(v))

\* json.load of one value
json_load_value(key, text) ==
    IF key \in BoolKeys THEN text = <<"true">>
    ELSE IF text = <<"null">> THEN None
    ELSE IF key \in NameKeys THEN Some(text[2])
    ELSE IF key \in TextKeys THEN Some(SubSeq(text, 2, Len(text) - 1))
    ELSE ParseInt(text)

json_dump(record) == [k \in DOMAIN record |-> json_dump_value(k, record[k])]

json_load(doc) == [k \in DOMAIN doc |-> json_load_value(k, doc[k])]

\* Variant of MergeOver in which the defaults win.
MergeOver_DefaultsWin(defaults, saved) ==
    [k \in DOMAIN defaults \cup DOMAIN saved |->
        IF k \in DOMAIN defaults THEN defaults[k] ELSE saved[k]]

\* {**defaults, **saved}
MergeOver(defaults, saved) ==
    [k \in DOMAIN defaults \cup DOMAIN saved |->
        IF k \in DOMAIN saved THEN saved[k] ELSE defaults[k]]

\* load_state() over a file [kind, doc]: kind is "missing", "invalid" (json.load
\* raises JSONDecodeError) or "object", and doc is then the object
load_state_text(f) ==
    IF f.kind = "object" THEN MergeOver(DEFAULT_STATE, json_load(f.doc))
    ELSE DEFAULT_STATE

\* save_state(state) as the text written
save_state_text(s) == [kind |-> "object", doc |-> json_dump(s)]

---------------------------------------------------------------------------
(* The snapshot builder.  A competitor record of the feed is               *)
(*   [score, position, thru, period, displayValue, type_name, linescores]  *)
(* where thru is [k, s, n]: the JSON string s (k = "str") or the JSON      *)
(* number n (k = "int"); an absent thru is the string "".                  *)

CUT_SIGNALS == {<<"C", "U", "T">>, <<"M", "C">>, <<"W", "D">>, <<"D", "Q">>,
                <<"R", "T", "D">>, <<"M", "D", "F">>}

\* thru_str = str(thru_raw).strip() if thru_raw else ""
ThruStr(thru_raw) ==
    IF thru_raw.k = "int"
    THEN IF thru_raw.n = 0 THEN <<>> ELSE IntToStr(thru_raw.n)
    ELSE Strip(thru_raw.s)

\* period = int(status_obj.get("period", 1) or 1)
Period(raw_period) == IF raw_period = 0 THEN 1 ELSE raw_period

\* today_score from linescores[period - 1]
TodayFromLinescores(linescores, period) ==
    IF Len(linescores) > 0 /\ Len(linescores) >= period
    THEN parse_score(linescores[period])
    ELSE None

\* Variant of MissedCutSignal that does not look at the status display value.
MissedCutSignal_NoDisplay(type_name, position, tee_time) ==
    \/ Contains(Lower(type_name), <<"c", "u", "t">>)
    \/ Upper(position) \in CUT_SIGNALS

MissedCutSignal(type_name, position, tee_time) ==
    \/ Contains(Lower(type_name), <<"c", "u", "t">>)
    \/ Upper(position) \in CUT_SIGNALS
    \/ Strip(Upper(tee_time)) \in CUT_SIGNALS

NormalisePosition(position) ==
    IF Upper(position) \in CUT_SIGNALS THEN <<>> ELSE position

\* Variant of HoleState that takes a count of 0 for live play.
HoleState_LiveAtZero(thru_str) ==
    IF Upper(thru_str) = <<"F">>
    THEN [thru |-> Some(18), is_live |-> FALSE, is_done |-> TRUE]
    ELSE IF IsDigitStr(thru_str)
    THEN LET n == DigitsToInt(thru_str)
         IN  [thru    |-> Some(n),
              is_live |-> n # 18,
              is_done |-> n = 18]
    ELSE [thru |-> None, is_live |-> FALSE, is_done |-> FALSE]

\* the hole / live state parsing: [thru, is_live, is_done]
HoleState(thru_str) ==
    IF Upper(thru_str) = <<"F">>
    THEN [thru |-> Some(18), is_live |-> FALSE, is_done |-> TRUE]
    ELSE IF IsDigitStr(thru_str)
    THEN LET n == DigitsToInt(thru_str)
         IN  [thru    |-> Some(n),
              is_live |-> n # 18 /\ n > 0,
              is_done |-> n = 18]
    ELSE [thru |-> None, is_live |-> FALSE, is_done |-> FALSE]

\* get_player_data(tournament_name), for the matched competitor record pl
get_player_data(tournament_name, pl) ==
    LET period == Period(pl.period)
        hs     == HoleState(ThruStr(pl.thru))
    IN  [tournament  |-> tournament_name,
         round       |-> period,
         thru        |-> hs.thru,
         is_live     |-> hs.is_live,
         is_done     |-> hs.is_done,
         today_score |-> TodayFromLinescores(pl.linescores, period),
         total_score |-> parse_score(pl.score),
         position    |-> NormalisePosition(pl.position),
         tee_time    |-> pl.displayValue,
         missed_cut  |-> MissedCutSignal(pl.type_name, pl.position, pl.displayValue)]

---------------------------------------------------------------------------
(* Score-change analysis.                                                  *)

\* Variant of detect_score_event whose birdie run spans up to three holes.
detect_score_event_RunOfThree(old_today, new_today, old_thru, new_thru) ==
    IF old_today = None \/ new_today = None \/ old_thru = None \/ new_thru = None
    THEN None
    ELSE LET holes_played == Get(new_thru) - Get(old_thru)
             delta        == Get(new_today) - Get(old_today)
         IN  IF holes_played <= 0 THEN None
             ELSE IF delta <= (0 - 2) * holes_played THEN Some("eagle")
             ELSE IF delta <= 0 - 3 /\ holes_played <= 3 THEN Some("birdie_run")
             ELSE IF delta >= 2 * holes_played THEN Some("double+")
             ELSE None

\* Variant of detect_score_event that tests for the birdie run first.
detect_score_event_RunFirst(old_today, new_today, old_thru, new_thru) ==
    IF old_today = None \/ new_today = None \/ old_thru = None \/ new_thru = None
    THEN None
    ELSE LET holes_played == Get(new_thru) - Get(old_thru)
             delta        == Get(new_today) - Get(old_today)
         IN  IF holes_played <= 0 THEN None
             ELSE IF delta <= 0 - 3 /\ holes_played <= 2 THEN Some("birdie_run")
             ELSE IF delta <= (0 - 2) * holes_played THEN Some("eagle")
             ELSE IF delta >= 2 * holes_played THEN Some("double+")
             ELSE None

\* detect_score_event(old_today, new_today, old_thru, new_thru): an optional event
\* name.  per_hole = delta / holes_played is a float division by a positive number:
\* per_hole <= -2 is delta <= -2 * holes_played, per_hole >= 2 is delta >= 2 * holes_played.
detect_score_event(old_today, new_today, old_thru, new_thru) ==
    IF old_today = None \/ new_today = None \/ old_thru = None \/ new_thru = None
    THEN None
    ELSE LET holes_played == Get(new_thru) - Get(old_thru)
             delta        == Get(new_today) - Get(old_today)
         IN  IF holes_played <= 0 THEN None
             ELSE IF delta <= (0 - 2) * holes_played THEN Some("eagle")
             ELSE IF delta <= 0 - 3 /\ holes_played <= 2 THEN Some("birdie_run")
             ELSE IF delta >= 2 * holes_played THEN Some("double+")
             ELSE None

---------------------------------------------------------------------------
(* The message texts.  A player record p has here its tournament, position *)
(* and tee_time character by character; a character outside ASCII is       *)
(* written "~", one for each code point.  random.choice makes each         *)
(* function the set of the texts it may return.                            *)

\* str(x) of an optional integer
PyStr(o) == IF o = None THEN <<"N", "o", "n", "e">> ELSE IntToStr(Get(o))

HASHTAGS ==
    <<"#", "P", "G", "A", "T", "o", "u", "r", " ", "#", "G", "o", "l", "f",
    " ", "#", "N", "e", "a", "l", "S", "h", "i", "p", "l", "e", "y">>

\* _pos_flavor(pos): the phrases random.choice may give
pos_flavor(pos) ==
    LET n == parse_position_num(Some(pos))
    IN  IF n = None THEN {<<"W", "o", "r", "k", "i", "n", "g", "!", " ", "~">>}
        ELSE IF Get(n) = 1 THEN
             {<<"~", " ", "T", "o", "p", " ", "o", "f", " ", "t", "h",
                  "e", " ", "l", "e", "a", "d", "e", "r", "b", "o", "a", "r",
                  "d", "!">>}
             \cup {<<"~", " ", "S", "i", "t", "t", "i", "n", "g", " ", "i",
                  "n", " ", "F", "I", "R", "S", "T", "!">>}
             \cup {<<"~", " ", "N", "u", "m", "b", "e", "r", " ", "1", " ",
                  "b", "a", "b", "y", "!">>}
             \cup {<<"~", " ", "L", "e", "a", "d", "i", "n", "g", " ", "t",
                  "h", "e", " ", "w", "a", "y", "!">>}
        ELSE IF Get(n) <= 3 THEN
             {<<"~", " ", "R", "i", "g", "h", "t", " ", "i", "n", " ",
                  "t", "h", "e", " ", "m", "i", "x", "!">>}
             \cup {<<"~", " ", "I", "n", "s", "i", "d", "e", " ", "t", "h",
                  "e", " ", "t", "o", "p", " ", "3", "!">>}
             \cup {<<"~", " ", "P", "o", "d", "i", "u", "m", " ", "t", "e",
                  "r", "r", "i", "t", "o", "r", "y", "!">>}
        ELSE IF Get(n) <= 5 THEN
             {<<"~", " ", "T", "o", "p", " ", "5", " ", "a", "n", "d",
                  " ", "h", "u", "n", "t", "i", "n", "g", "!">>}
             \cup {<<"~", " ", "C", "h", "a", "r", "g", "i", "n", "g", " ",
                  "u", "p", " ", "t", "h", "e", " ", "b", "o", "a", "r", "d",
                  "!">>}
             \cup {<<"~", " ", "T", "o", "p", " ", "5", " ", "~", " ", "b",
                  "i", "g", " ", "t", "h", "i", "n", "g", "s", " ", "l", "o",
                  "a", "d", "i", "n", "g", "~">>}
        ELSE IF Get(n) <= 10 THEN
             {<<"~", " ", "T", "o", "p", " ", "1", "0", " ", "a", "n",
                  "d", " ", "c", "l", "i", "m", "b", "i", "n", "g", "!">>}
             \cup {<<"~", " ", "H", "a", "n", "g", "i", "n", "g", " ", "i",
                  "n", " ", "t", "h", "e", " ", "t", "o", "p", " ", "1", "0",
                  "!">>}
             \cup {<<"~", " ", "W", "e", "l", "l", " ", "p", "o", "s", "i",
                  "t", "i", "o", "n", "e", "d", "!">>}
        ELSE IF Get(n) <= 20 THEN
             {<<"~", "~", " ", "G", "r", "i", "n", "d", "i", "n", "g",
                  " ", "i", "n", "t", "o", " ", "c", "o", "n", "t", "e", "n",
                  "t", "i", "o", "n", "!">>}
             \cup {<<"~", " ", "P", "l", "e", "n", "t", "y", " ", "o", "f",
                  " ", "g", "o", "l", "f", " ", "l", "e", "f", "t", "!">>}
             \cup {<<"~", " ", "R", "o", "o", "m", " ", "t", "o", " ", "m",
                  "o", "v", "e", "!">>}
        ELSE {<<"~", " ", "N", "e", "v", "e", "r", " ", "s", "t", "o",
                  "p", " ", "g", "r", "i", "n", "d", "i", "n", "g", "!">>}
             \cup {<<"~", " ", "K", "e", "e", "p", " ", "b", "u", "i", "l",
                  "d", "i", "n", "g", "!">>}
             \cup {<<"~", " ", "S", "t", "a", "y", " ", "p", "a", "t", "i",
                  "e", "n", "t", " ", "~", " ", "l", "o", "t", "s", " ", "l",
                  "e", "f", "t", "!">>}

\* tweet_tee_time(p): the texts random.choice may give
tweet_tee_time(p) ==
    LET rd     == IntToStr(p.round)
        tt     == p.tee_time
        pos    == p.position
        total  == fmt(p.total_score)
        t      == p.tournament
        flavor == pos_flavor(pos)
    IN  IF p.round = 1 THEN
             {<<"~", " ", "N", "e", "a", "l", " ", "S", "h", "i", "p",
                  "l", "e", "y", " ", "t", "e", "e", "s", " ", "o", "f", "f",
                  " ", "a", "t", " ">> \o tt \o <<" ", "f", "o", "r", " ", "R",
                  "o", "u", "n", "d", " ", "1", " ", "o", "f", " ", "t", "h",
                  "e", " ">> \o t \o <<".", " ", "L", "e", "t", "'", "s", " ",
                  "g", "e", "t", " ", "i", "t", "!", " ">> \o HASHTAGS}
             \cup {<<"~", "~", " ", "I", "t", "'", "s", " ", "g", "o", " ",
                  "t", "i", "m", "e", ".", " ", "N", "e", "a", "l", " ", "S",
                  "h", "i", "p", "l", "e", "y", " ", "s", "t", "a", "r", "t",
                  "s", " ", "R", "1", " ", "a", "t", " ">> \o tt \o <<" ", "a",
                  "t", " ", "t", "h", "e", " ">> \o t \o <<".",
                  " ">> \o HASHTAGS}
             \cup {<<"~", " ">> \o tt \o <<" ", "t", "e", "e", " ", "t", "i",
                  "m", "e", " ", "f", "o", "r", " ", "N", "e", "a", "l", " ",
                  "S", "h", "i", "p", "l", "e", "y", " ", "~", " ", "R", "o",
                  "u", "n", "d", " ", "1", " ", "o", "f", " ", "t", "h", "e",
                  " ">> \o t \o <<".", " ", "G", "a", "m", "e", " ", "o", "n",
                  "!", " ">> \o HASHTAGS}
        ELSE IF pos # <<>> THEN
             {<<"~", " ", "R", "o", "u", "n", "d", " ">> \o rd \o <<" ",
                  "t", "e", "e", " ", "t", "i", "m", "e", ":",
                  " ">> \o tt \o <<".", " ", "N", "e", "a", "l", " ", "S", "h",
                  "i", "p", "l", "e", "y", " ">> \o pos \o <<" ",
                  "(">> \o total \o <<")", " ", "a", "t", " ", "t", "h", "e",
                  " ">> \o t \o <<".",
                  " ">> \o fl \o <<" ">> \o HASHTAGS : fl \in flavor}
             \cup {<<"~", " ", "N", "e", "a", "l", " ", "S", "h", "i", "p",
                  "l", "e", "y", " ", "o", "f", "f", " ", "a", "t",
                  " ">> \o tt \o <<" ", "i", "n", " ", "R">> \o rd \o <<".",
                  " ", "S", "i", "t", "t", "i", "n", "g",
                  " ">> \o pos \o <<" ", "a", "t", " ">> \o total \o <<" ",
                  "~", " ">> \o t \o <<".",
                  " ">> \o fl \o <<" ">> \o HASHTAGS : fl \in flavor}
             \cup {<<"~", "~", " ">> \o tt \o <<" ", "s", "t", "a", "r", "t",
                  " ", "f", "o", "r", " ", "R">> \o rd \o <<".", " ", "N", "e",
                  "a", "l", " ", "S", "h", "i", "p", "l", "e", "y",
                  " ">> \o pos \o <<",", " ">> \o total \o <<" ", "o", "v",
                  "e", "r", "a", "l", "l", " ", "a", "t", " ", "t", "h", "e",
                  " ">> \o t \o <<".", " ">> \o HASHTAGS}
             \cup {<<"~", " ", "R">> \o rd \o <<" ", "t", "e", "e", " ", "t",
                  "i", "m", "e", " ", "l", "o", "c", "k", "e", "d", " ", "i",
                  "n", ":", " ">> \o tt \o <<".", " ", "N", "e", "a", "l", " ",
                  "S", "h", "i", "p", "l", "e", "y", " ">> \o pos \o <<" ",
                  "(">> \o total \o <<")", " ", "a", "t", " ", "t", "h", "e",
                  " ">> \o t \o <<".", " ">> \o HASHTAGS}
        ELSE {<<"~", " ", "R", "o", "u", "n", "d", " ">> \o rd \o <<" ",
                  "t", "e", "e", " ", "t", "i", "m", "e", ":",
                  " ">> \o tt \o <<" ", "f", "o", "r", " ", "N", "e", "a", "l",
                  " ", "S", "h", "i", "p", "l", "e", "y", " ", "a", "t", " ",
                  "t", "h", "e", " ">> \o t \o <<".", " ", "C", "u", "r", "r",
                  "e", "n", "t", "l", "y", " ">> \o total \o <<".",
                  " ">> \o HASHTAGS}
             \cup {<<"~", "~", " ", "N", "e", "a", "l", " ", "S", "h", "i",
                  "p", "l", "e", "y", " ", "t", "e", "e", "s", " ", "o", "f",
                  "f", " ", "a", "t", " ">> \o tt \o <<" ", "i", "n", " ",
                  "R">> \o rd \o <<" ", "o", "f", " ", "t", "h", "e",
                  " ">> \o t \o <<".", " ", "S", "i", "t", "t", "i", "n", "g",
                  " ", "a", "t", " ">> \o total \o <<".", " ">> \o HASHTAGS}

\* tweet_score_alert(p, event): the texts random.choice may give
tweet_score_alert(p, event) ==
    LET hole  == PyStr(p.thru)
        today == fmt(p.today_score)
        total == fmt(p.total_score)
        pos   == IF p.position # <<>> THEN p.position
                 ELSE <<"t", "h", "e", " ", "f", "i", "e", "l", "d">>
        t     == p.tournament
    IN  IF event = "eagle" THEN
             {<<"~", " ", "E", "A", "G", "L", "E", "!", " ", "N", "e",
                  "a", "l", " ", "S", "h", "i", "p", "l", "e", "y", " ", "m",
                  "a", "k", "e", "s", " ", "e", "a", "g", "l", "e", " ", "a",
                  "t", " ", "h", "o", "l", "e", " ">> \o hole \o <<"!",
                  " ">> \o today \o <<" ", "t", "o", "d", "a", "y", ",",
                  " ">> \o total \o <<" ", "o", "v", "e", "r", "a", "l", "l",
                  ".", " ">> \o pos \o <<" ", "a", "t", " ", "t", "h", "e",
                  " ">> \o t \o <<".", " ">> \o HASHTAGS}
             \cup {<<"~", " ", "E", "A", "G", "L", "E", " ", "o", "n", " ",
                  "#">> \o hole \o <<"!", " ", "N", "e", "a", "l", " ", "S",
                  "h", "i", "p", "l", "e", "y", " ", "g", "o", "e", "s",
                  " ">> \o today \o <<" ", "t", "o", "d", "a", "y", " ", "a",
                  "n", "d", " ", "s", "i", "t", "s", " ", "a", "t",
                  " ">> \o total \o <<" ", "t", "o", "t", "a", "l", ".",
                  " ">> \o pos \o <<".", " ">> \o t \o <<" ">> \o HASHTAGS}
             \cup {<<"~", " ", "N", "e", "a", "l", " ", "S", "h", "i", "p",
                  "l", "e", "y", " ", "E", "A", "G", "L", "E", "S", " ", "h",
                  "o", "l", "e", " ">> \o hole \o <<"!", " ", "M", "o", "v",
                  "e", "s", " ", "t", "o", " ">> \o today \o <<" ", "t", "o",
                  "d", "a", "y", " ", "/", " ">> \o total \o <<" ", "o", "v",
                  "e", "r", "a", "l", "l", ".", " ">> \o pos \o <<" ", "a",
                  "t", " ", "t", "h", "e", " ">> \o t \o <<".",
                  " ">> \o HASHTAGS}
        ELSE IF event = "birdie_run" THEN
             {<<"~", " ", "B", "i", "r", "d", "i", "e", " ", "r", "u",
                  "n", "!", " ", "N", "e", "a", "l", " ", "S", "h", "i", "p",
                  "l", "e", "y", " ", "o", "n", " ", "f", "i", "r", "e", " ",
                  "~", " ">> \o today \o <<" ", "t", "o", "d", "a", "y", " ",
                  "t", "h", "r", "o", "u", "g", "h", " ">> \o hole \o <<",",
                  " ">> \o total \o <<" ", "o", "v", "e", "r", "a", "l", "l",
                  ".", " ">> \o pos \o <<" ", "a", "t", " ", "t", "h", "e",
                  " ">> \o t \o <<".", " ">> \o HASHTAGS}
             \cup {<<"~", "~", " ", "N", "e", "a", "l", " ", "S", "h", "i",
                  "p", "l", "e", "y", " ", "i", "s", " ", "R", "O", "L", "L",
                  "I", "N", "G", ".", " ">> \o today \o <<" ", "t", "h", "r",
                  "o", "u", "g", "h", " ">> \o hole \o <<" ", "h", "o", "l",
                  "e", "s", " ", "t", "o", "d", "a", "y", ",",
                  " ">> \o total \o <<" ", "t", "o", "t", "a", "l", ".",
                  " ">> \o pos \o <<".", " ">> \o t \o <<" ">> \o HASHTAGS}
             \cup {<<"~", " ", "C", "a", "n", "'", "t", " ", "m", "i", "s",
                  "s", " ", "r", "i", "g", "h", "t", " ", "n", "o", "w", "!",
                  " ", "N", "e", "a", "l", " ", "S", "h", "i", "p", "l", "e",
                  "y", " ">> \o today \o <<" ", "t", "o", "d", "a", "y", " ",
                  "t", "h", "r", "u", " ">> \o hole \o <<" ",
                  "(">> \o total \o <<" ", "o", "v", "e", "r", "a", "l", "l",
                  ")", ".", " ">> \o pos \o <<" ", "~", " ">> \o t \o <<".",
                  " ">> \o HASHTAGS}
        ELSE {<<"~", " ", "T", "o", "u", "g", "h", " ", "h", "o", "l",
                  "e", " ", "f", "o", "r", " ", "N", "e", "a", "l", " ", "S",
                  "h", "i", "p", "l", "e", "y", " ", "a", "t", " ",
                  "#">> \o hole \o <<".", " ", "S", "t", "i", "l", "l", " ",
                  "h", "a", "n", "g", "i", "n", "g", " ", "i", "n", " ", "a",
                  "t", " ">> \o today \o <<" ", "t", "o", "d", "a", "y", ",",
                  " ">> \o total \o <<" ", "o", "v", "e", "r", "a", "l", "l",
                  ".", " ">> \o pos \o <<" ", "~", " ">> \o t \o <<".",
                  " ">> \o HASHTAGS}
             \cup {<<"~", " ", "A", "d", "v", "e", "r", "s", "i", "t", "y",
                  " ", "o", "n", " ", "#">> \o hole \o <<".", " ", "N", "e",
                  "a", "l", " ", "S", "h", "i", "p", "l", "e", "y",
                  " ">> \o today \o <<" ", "t", "o", "d", "a", "y", ",",
                  " ">> \o total \o <<" ", "t", "o", "t", "a", "l", ".",
                  " ">> \o pos \o <<".", " ", "P", "l", "e", "n", "t", "y",
                  " ", "o", "f", " ", "g", "o", "l", "f", " ", "l", "e", "f",
                  "t", ".", " ">> \o t \o <<" ">> \o HASHTAGS}
             \cup {<<"~", " ", "R", "o", "u", "g", "h", " ", "p", "a", "t",
                  "c", "h", " ", "a", "t", " ", "#">> \o hole \o <<",", " ",
                  "b", "u", "t", " ", "N", "e", "a", "l", " ", "S", "h", "i",
                  "p", "l", "e", "y", " ", "k", "e", "e", "p", "s", " ", "f",
                  "i", "g", "h", "t", "i", "n", "g", ".",
                  " ">> \o today \o <<" ", "t", "o", "d", "a", "y", " ", "/",
                  " ">> \o total \o <<" ", "o", "v", "e", "r", "a", "l", "l",
                  ".", " ">> \o pos \o <<" ", "~", " ">> \o t \o <<".",
                  " ">> \o HASHTAGS}

\* tweet_milestone_update(p): the texts random.choice may give
tweet_milestone_update(p) ==
    LET hole    == PyStr(p.thru)
        rd      == IntToStr(p.round)
        today   == fmt(p.today_score)
        total   == fmt(p.total_score)
        pos     == p.position
        t       == p.tournament
        pos_tag == IF pos # <<>> THEN pos \o <<" ">> ELSE <<>>
        flavor  == pos_flavor(p.position)
    IN  {<<"~", " ", "T", "h", "r", "u", " ">> \o hole \o <<" ", "|", " ",
             "R">> \o rd \o <<":", " ", "N", "e", "a", "l", " ", "S", "h", "i",
             "p", "l", "e", "y", " ">> \o today \o <<" ", "t", "o", "d", "a",
             "y", ",", " ">> \o total \o <<" ", "o", "v", "e", "r", "a", "l",
             "l", ".", " ">> \o pos_tag \o <<"a", "t", " ", "t", "h", "e",
             " ">> \o t \o <<".",
             " ">> \o fl \o <<" ">> \o HASHTAGS : fl \in flavor}
        \cup {<<"~", " ", "T", "h", "r", "o", "u", "g", "h",
             " ">> \o hole \o <<" ", "h", "o", "l", "e", "s", " ", "(",
             "R">> \o rd \o <<")", ":", " ", "N", "e", "a", "l", " ", "S", "h",
             "i", "p", "l", "e", "y", " ">> \o today \o <<" ", "t", "o", "d",
             "a", "y", " ", "/", " ">> \o total \o <<" ", "t", "o", "t", "a",
             "l", ".", " ">> \o pos_tag \o t \o <<".", " ">> \o HASHTAGS}
        \cup {<<"~", " ", "R">> \o rd \o <<" ", "c", "h", "e", "c", "k", "-",
             "i", "n", " ", "~", " ", "h", "o", "l", "e",
             " ">> \o hole \o <<":", " ">> \o today \o <<" ", "t", "o", "d",
             "a", "y", " ", "|", " ">> \o total \o <<" ", "o", "v", "e", "r",
             "a", "l", "l", " ", "|", " ">> \o pos_tag \o t \o <<".",
             " ">> \o fl \o <<" ">> \o HASHTAGS : fl \in flavor}
        \cup {<<"~", " ">> \o t \o <<" ", "R">> \o rd \o <<" ", "|", " ", "T",
             "h", "r", "u", " ">> \o hole \o <<" ", "|", " ", "N", "e", "a",
             "l", " ", "S", "h", "i", "p", "l", "e", "y",
             " ">> \o today \o <<" ", "t", "o", "d", "a", "y", ",",
             " ">> \o total \o <<" ", "t", "o", "t", "a", "l", ".",
             " ">> \o pos_tag \o HASHTAGS}
        \cup {<<"~", "~", " ", "H", "o", "l", "e", " ">> \o hole \o <<" ", "u",
             "p", "d", "a", "t", "e", ":", " ", "N", "e", "a", "l", " ", "S",
             "h", "i", "p", "l", "e", "y", " ">> \o today \o <<" ", "t", "o",
             "d", "a", "y", ",", " ">> \o total \o <<" ", "o", "v", "e", "r",
             "a", "l", "l", ".", " ">> \o pos_tag \o <<"~",
             " ">> \o t \o <<" ", "R">> \o rd \o <<".", " ">> \o HASHTAGS}

\* tweet_round_finish(p): the texts random.choice may give
tweet_round_finish(p) ==
    LET rd      == IntToStr(p.round)
        today   == fmt(p.today_score)
        total   == fmt(p.total_score)
        pos     == p.position
        t       == p.tournament
        sc      == OrInt(p.today_score, 0)
        coda    == IF sc <= -6 THEN
                       <<"~", "~", " ", "W", "H", "A", "T", " ", "A", " ", "R",
                       "O", "U", "N", "D", "!">>
                   ELSE IF sc <= -4 THEN
                       <<"~", " ", "A", "b", "s", "o", "l", "u", "t", "e", "l",
                       "y", " ", "f", "i", "r", "i", "n", "g", "!">>
                   ELSE IF sc <= -2 THEN
                       <<"~", " ", "S", "o", "l", "i", "d", " ", "r", "o", "u",
                       "n", "d", " ", "o", "f", " ", "g", "o", "l", "f", ".">>
                   ELSE IF sc = 0 THEN
                       <<"S", "t", "e", "a", "d", "y", " ", "d", "a", "y", ".",
                       " ", "L", "e", "t", "'", "s", " ", "b", "u", "i", "l",
                       "d", ".">>
                   ELSE IF sc <= 2 THEN
                       <<"G", "r", "i", "n", "d", " ", "c", "o", "n", "t", "i",
                       "n", "u", "e", "s", ".", " ", "H", "e", "a", "d", "s",
                       " ", "u", "p", ".", " ", "~">>
                   ELSE <<"T", "o", "u", "g", "h", " ", "d", "a", "y", " ", "~",
                       " ", "r", "e", "s", "e", "t", " ", "a", "n", "d", " ",
                       "g", "o", ".", " ", "~">>
        pos_tag == IF pos # <<>> THEN pos \o <<" ">> ELSE <<>>
    IN  {<<"~", " ", "R", "o", "u", "n", "d", " ">> \o rd \o <<" ", "D",
             "O", "N", "E", ".", " ", "N", "e", "a", "l", " ", "S", "h", "i",
             "p", "l", "e", "y", " ", "c", "a", "r", "d", "s",
             " ">> \o today \o <<" ", "t", "o", "d", "a", "y", ".",
             " ">> \o pos_tag \o total \o <<" ", "o", "v", "e", "r", "a", "l",
             "l", " ", "a", "t", " ", "t", "h", "e", " ">> \o t \o <<".",
             " ">> \o coda \o <<" ">> \o HASHTAGS}
        \cup {<<"~", " ", "R">> \o rd \o <<" ", "i", "n", " ", "t", "h", "e",
             " ", "b", "o", "o", "k", "s", ".", " ", "N", "e", "a", "l", " ",
             "S", "h", "i", "p", "l", "e", "y", ":", " ">> \o today \o <<" ",
             "t", "o", "d", "a", "y", " ", "|", " ">> \o total \o <<" ", "t",
             "o", "t", "a", "l", " ", "|", " ">> \o pos_tag \o t \o <<".",
             " ">> \o coda \o <<" ">> \o HASHTAGS}
        \cup {<<"~", " ", "R">> \o rd \o <<" ", "w", "r", "a", "p", ":", " ",
             "N", "e", "a", "l", " ", "S", "h", "i", "p", "l", "e", "y", " ",
             "s", "h", "o", "o", "t", "s", " ">> \o today \o <<".", " ", "M",
             "o", "v", "e", "s", " ", "t", "o", " ">> \o total \o <<" ", "o",
             "v", "e", "r", "a", "l", "l", ".", " ">> \o pos_tag \o t \o <<".",
             " ">> \o coda \o <<" ">> \o HASHTAGS}
        \cup {<<"~", " ", "N", "e", "a", "l", " ", "S", "h", "i", "p", "l",
             "e", "y", " ", "p", "o", "s", "t", "s", " ">> \o today \o <<" ",
             "i", "n", " ", "R", "o", "u", "n", "d", " ">> \o rd \o <<".",
             " ">> \o total \o <<" ", "o", "v", "e", "r", "a", "l", "l", ",",
             " ">> \o pos_tag \o <<"a", "t", " ", "t", "h", "e",
             " ">> \o t \o <<".", " ">> \o coda \o <<" ">> \o HASHTAGS}

\* tweet_missed_cut(p): the texts random.choice may give
tweet_missed_cut(p) ==
    LET total == fmt(p.total_score)
        t     == p.tournament
    IN  {<<"~", " ", "N", "e", "a", "l", " ", "S", "h", "i", "p", "l",
             "e", "y", " ", "m", "i", "s", "s", "e", "s", " ", "t", "h", "e",
             " ", "c", "u", "t", " ", "a", "t", " ", "t", "h", "e",
             " ">> \o t \o <<" ", "(">> \o total \o <<")", ".", " ", "R", "e",
             "g", "r", "o", "u", "p", " ", "a", "n", "d", " ", "r", "e", "l",
             "o", "a", "d", " ", "~", " ", "n", "e", "x", "t", " ", "o", "n",
             "e", " ", "i", "s", " ", "r", "i", "g", "h", "t", " ", "a", "r",
             "o", "u", "n", "d", " ", "t", "h", "e", " ", "c", "o", "r", "n",
             "e", "r", ".", " ", "~", " ">> \o HASHTAGS}
        \cup {<<"N", "o", " ", "w", "e", "e", "k", "e", "n", "d", " ", "f",
             "o", "r", " ", "N", "e", "a", "l", " ", "S", "h", "i", "p", "l",
             "e", "y", " ", "a", "t", " ", "t", "h", "e", " ">> \o t \o <<" ",
             "a", "f", "t", "e", "r", " ", "f", "i", "n", "i", "s", "h", "i",
             "n", "g", " ", "a", "t", " ">> \o total \o <<".", " ", "H", "e",
             "a", "d", " ", "u", "p", ",", " ", "g", "r", "i", "n", "d", " ",
             "n", "e", "v", "e", "r", " ", "s", "t", "o", "p", "s", ".", " ",
             "~", " ">> \o HASHTAGS}
        \cup {<<"C", "u", "t", " ", "l", "i", "n", "e", " ", "g", "e", "t",
             "s", " ", "u", "s", " ", "a", "t", " ", "t", "h", "e",
             " ">> \o t \o <<" ", "(">> \o total \o <<")", ".", " ", "W", "e",
             "'", "l", "l", " ", "b", "e", " ", "b", "a", "c", "k", ".", " ",
             "N", "e", "a", "l", " ", "S", "h", "i", "p", "l", "e", "y", " ",
             "n", "e", "x", "t", " ", "w", "e", "e", "k", "!", " ", "~",
             " ">> \o HASHTAGS}
        \cup {<<"N", "e", "a", "l", " ", "S", "h", "i", "p", "l", "e", "y",
             "'", "s", " ", "w", "e", "e", "k", " ", "e", "n", "d", "s", " ",
             "a", "t", " ", "t", "h", "e", " ">> \o t \o <<" ",
             "(">> \o total \o <<")", ".", " ", "R", "e", "s", "e", "t", ",",
             " ", "r", "e", "f", "o", "c", "u", "s", ",", " ", "r", "e", "l",
             "o", "a", "d", ".", " ", "B", "i", "g", "g", "e", "r", " ", "t",
             "h", "i", "n", "g", "s", " ", "a", "h", "e", "a", "d", ".", " ",
             "~", " ">> \o HASHTAGS}

---------------------------------------------------------------------------
(* Posting.  clients[k] tells whether the k-th _get_twikit gives a client, *)
(* answers[k] whether the k-th create_tweet succeeds.  The result is       *)
(* [ok, sent]: what is returned and the texts handed to create_tweet.      *)

TWEET_LIMIT == 280

\* Variant of Truncate that keeps one character more.
Truncate_OneMore(text) ==
    SubSeq(text, 1, IF Len(text) < TWEET_LIMIT + 1 THEN Len(text) ELSE TWEET_LIMIT + 1)

\* text[:280]
Truncate(text) ==
    SubSeq(text, 1, IF Len(text) < TWEET_LIMIT THEN Len(text) ELSE TWEET_LIMIT)

(* The twikit session.  A session e is [twikit, cookies, loadable,          *)
(* secrets]: the module-level client is set; COOKIES_FILE exists;          *)
(* load_cookies accepts it; the three credentials are set.  login_ok is    *)
(* whether client.login and save_cookies go through without an exception.  *)

\* _get_twikit(): [client, session, logins], the client obtained or not, the session
\* afterwards and the number of client.login calls
get_twikit(e, login_ok) ==
    IF e.twikit THEN [client |-> TRUE, session |-> e, logins |-> 0]
    ELSE IF e.cookies /\ e.loadable
    THEN [client |-> TRUE, session |-> [e EXCEPT !.twikit = TRUE], logins |-> 0]
    ELSE IF ~e.secrets THEN [client |-> FALSE, session |-> e, logins |-> 0]
    ELSE IF login_ok
    THEN [client  |-> TRUE,
          session |-> [e EXCEPT !.twikit = TRUE, !.cookies = TRUE, !.loadable = TRUE],
          logins  |-> 1]
    ELSE [client |-> FALSE, session |-> e, logins |-> 1]

\* Variant of Wiped that keeps the cookie file.
Wiped_KeepsCookies(e) == [e EXCEPT !.twikit = FALSE]

\* _twikit = None; Path(COOKIES_FILE).unlink(missing_ok=True)
Wiped(e) == [e EXCEPT !.twikit = FALSE, !.cookies = FALSE]

\* _post_async(text) over the session e: login_oks[k] is what the login of the k-th
\* _get_twikit() call does, answers[k] whether the k-th create_tweet call returns
\* (TRUE) or raises.  [ok, sent, clients, session, logins]: the value returned, the
\* texts handed to create_tweet, what the _get_twikit() calls gave, the session
\* afterwards and the client.login calls after the session was wiped.
post_async_in(text, e, login_oks, answers) ==
    LET first  == get_twikit(e, login_oks[1])
        second == get_twikit(Wiped(first.session), login_oks[2])
    IN  IF ~first.client
        THEN [ok |-> FALSE, sent |-> <<>>, clients |-> <<FALSE>>,
              session |-> first.session, logins |-> 0]
        ELSE IF answers[1]
        THEN [ok |-> TRUE, sent |-> <<text>>, clients |-> <<TRUE>>,
              session |-> first.session, logins |-> 0]
        ELSE IF ~second.client
        THEN [ok |-> FALSE, sent |-> <<text>>, clients |-> <<TRUE, FALSE>>,
              session |-> second.session, logins |-> second.logins]
        ELSE [ok |-> answers[2], sent |-> <<text, text>>, clients |-> <<TRUE, TRUE>>,
              session |-> second.session, logins |-> second.logins]

\* _post_async(text)
post_async(text, clients, answers) ==
    IF ~clients[1] THEN [ok |-> FALSE, sent |-> <<>>]
    ELSE IF answers[1] THEN [ok |-> TRUE, sent |-> <<text>>]
    ELSE IF ~clients[2] THEN [ok |-> FALSE, sent |-> <<text>>]
    ELSE [ok |-> answers[2], sent |-> <<text, text>>]

\* post_tweet(text), for the text itself
post_tweet_text(text, test_mode, clients, answers) ==
    IF test_mode THEN [ok |-> TRUE, sent |-> <<>>]
    ELSE post_async(Truncate(text), clients, answers)

---------------------------------------------------------------------------
(* The decision engine.  oks[k] is what the k-th post_tweet call of the    *)
(* run returns.  A step yields [s, posts]: the state so far and the        *)
(* post_tweet calls so far, each [cat, event, ok].                         *)

UPDATE_MILESTONES == {6, 12}

\* post_tweet(text) for a message of category cat: the call is recorded with the
\* transport's answer.
post_tweet(made, cat, event, oks) ==
    Append(made, [cat |-> cat, event |-> event, ok |-> oks[Len(made) + 1]])

LastOk(made) == made[Len(made)].ok

\* has_tee_time and not is_live and not is_done
TeeTimePending(p) == p.tee_time # <<>> /\ AnyDigit(p.tee_time) /\ ~p.is_live /\ ~p.is_done

\* Variant of MissedCutStep that does not look at the sticky flag.
MissedCutStep_IgnoresFlag(p, s, oks) ==
    LET ps == post_tweet(<<>>, "missed_cut", "", oks)
    IN  [s     |-> IF LastOk(ps) THEN [s EXCEPT !.missed_cut = TRUE] ELSE s,
         posts |-> ps]

\* 1. Missed cut
MissedCutStep(p, s, oks) ==
    IF ~s.missed_cut
    THEN LET ps == post_tweet(<<>>, "missed_cut", "", oks)
         IN  [s     |-> IF LastOk(ps) THEN [s EXCEPT !.missed_cut = TRUE] ELSE s,
              posts |-> ps]
    ELSE [s |-> s, posts |-> <<>>]

\* Variant of TeeTimeStep that does not look at the marker.
TeeTimeStep_IgnoresMarker(p, s, oks) ==
    LET ps == post_tweet(<<>>, "tee_time", "", oks)
    IN  [s     |-> IF LastOk(ps)
                   THEN [s EXCEPT !.tee_time_tweeted_round = Some(p.round)]
                   ELSE s,
         posts |-> ps]

\* 2. Tee time
TeeTimeStep(p, s, oks) ==
    IF s.tee_time_tweeted_round # Some(p.round)
    THEN LET ps == post_tweet(<<>>, "tee_time", "", oks)
         IN  [s     |-> IF LastOk(ps)
                        THEN [s EXCEPT !.tee_time_tweeted_round = Some(p.round)]
                        ELSE s,
              posts |-> ps]
    ELSE [s |-> s, posts |-> <<>>]

\* Variant of ResetRoundCounters that resets the milestone marker only.
ResetRoundCounters_KeepsAlert(p, s) ==
    IF s.round # Some(p.round)
    THEN [s EXCEPT !.last_hole_milestone = None]
    ELSE s

\* Reset per-round counters when we enter a new round
ResetRoundCounters(p, s) ==
    IF s.round # Some(p.round)
    THEN [s EXCEPT !.last_hole_milestone = None, !.last_alert_hole = None]
    ELSE s

\* Variant of PersistPlayer that leaves the tournament out of the update.
PersistPlayer_NoTournament(p, s) ==
    [s EXCEPT !.round       = Some(p.round),
              !.thru        = p.thru,
              !.today_score = p.today_score,
              !.total_score = p.total_score,
              !.position    = Some(p.position)]

\* s.update(...) with the player's round, thru, scores, position and tournament
PersistPlayer(p, s) ==
    [s EXCEPT !.tournament  = Some(p.tournament),
              !.round       = Some(p.round),
              !.thru        = p.thru,
              !.today_score = p.today_score,
              !.total_score = p.total_score,
              !.position    = Some(p.position)]

\* Variant of RoundFinishStep that does not record the round it announced.
RoundFinishStep_KeepsMarker(p, s, oks) ==
    LET c == IF s.round_finish_tweeted # Some(p.round)
             THEN LET ps == post_tweet(<<>>, "round_finish", "", oks)
                  IN  [s     |-> IF LastOk(ps)
                                 THEN [s EXCEPT !.last_hole_milestone = Some(18)]
                                 ELSE s,
                       posts |-> ps]
             ELSE [s |-> s, posts |-> <<>>]
    IN  [s |-> PersistPlayer(p, c.s), posts |-> c.posts]

\* Variant of RoundFinishStep that copies the player's data only after a delivery.
RoundFinishStep_CopiesOnDelivery(p, s, oks) ==
    IF s.round_finish_tweeted # Some(p.round)
    THEN LET ps == post_tweet(<<>>, "round_finish", "", oks)
         IN  [s     |-> IF LastOk(ps)
                        THEN PersistPlayer(p, [s EXCEPT !.round_finish_tweeted = Some(p.round),
                                                        !.last_hole_milestone  = Some(18)])
                        ELSE s,
              posts |-> ps]
    ELSE [s |-> PersistPlayer(p, s), posts |-> <<>>]

\* 3. Round finish
RoundFinishStep(p, s, oks) ==
    LET c == IF s.round_finish_tweeted # Some(p.round)
             THEN LET ps == post_tweet(<<>>, "round_finish", "", oks)
                  IN  [s     |-> IF LastOk(ps)
                                 THEN [s EXCEPT !.round_finish_tweeted = Some(p.round),
                                                !.last_hole_milestone  = Some(18)]
                                 ELSE s,
                       posts |-> ps]
             ELSE [s |-> s, posts |-> <<>>]
    IN  [s |-> PersistPlayer(p, c.s), posts |-> c.posts]

\* Variant of ScoreAlertStep that does not record the alert's hole.
ScoreAlertStep_ForgetsHole(p, c, oks) ==
    LET cur_hole   == Get(p.thru)
        event      == detect_score_event(c.s.today_score, p.today_score, c.s.thru, p.thru)
        last_alert == OrInt(c.s.last_alert_hole, 0)
    IN  IF event # None /\ cur_hole > last_alert
        THEN [s |-> c.s, posts |-> post_tweet(c.posts, "score_alert", Get(event), oks)]
        ELSE c

\* Variant of ScoreAlertStep that does not compare with the hole of the last alert.
ScoreAlertStep_AnyHole(p, c, oks) ==
    LET cur_hole == Get(p.thru)
        event    == detect_score_event(c.s.today_score, p.today_score, c.s.thru, p.thru)
    IN  IF event # None
        THEN LET ps == post_tweet(c.posts, "score_alert", Get(event), oks)
             IN  [s     |-> IF LastOk(ps)
                            THEN [c.s EXCEPT !.last_alert_hole = Some(cur_hole)]
                            ELSE c.s,
                  posts |-> ps]
        ELSE c

\* 4. Score-change alert
ScoreAlertStep(p, c, oks) ==
    LET cur_hole   == Get(p.thru)
        event      == detect_score_event(c.s.today_score, p.today_score, c.s.thru, p.thru)
        last_alert == OrInt(c.s.last_alert_hole, 0)
    IN  IF event # None /\ cur_hole > last_alert
        THEN LET ps == post_tweet(c.posts, "score_alert", Get(event), oks)
             IN  [s     |-> IF LastOk(ps)
                            THEN [c.s EXCEPT !.last_alert_hole = Some(cur_hole)]
                            ELSE c.s,
                  posts |-> ps]
        ELSE c

\* Variant of MilestoneStep without the check for an alert at this hole.
MilestoneStep_NoAlertCheck(p, c, oks) ==
    LET cur_hole       == Get(p.thru)
        last_milestone == OrInt(c.s.last_hole_milestone, 0)
        due            == {m \in UPDATE_MILESTONES : cur_hole >= m /\ m > last_milestone}
    IN  IF due = {} THEN c
        ELSE LET milestone == CHOOSE m \in due : \A o \in due : m <= o
                 ps        == post_tweet(c.posts, "milestone", "", oks)
             IN  [s     |-> IF LastOk(ps)
                            THEN [c.s EXCEPT !.last_hole_milestone = Some(milestone)]
                            ELSE c.s,
                  posts |-> ps]

\* Variant of MilestoneStep that leaves the marker alone after an alert at this hole.
MilestoneStep_SkipsOnAlert(p, c, oks) ==
    LET cur_hole       == Get(p.thru)
        last_milestone == OrInt(c.s.last_hole_milestone, 0)
        due            == {m \in UPDATE_MILESTONES : cur_hole >= m /\ m > last_milestone}
    IN  IF due = {} THEN c
        ELSE LET milestone == CHOOSE m \in due : \A o \in due : m <= o
             IN  IF c.s.last_alert_hole = Some(cur_hole)
                 THEN c
                 ELSE LET ps == post_tweet(c.posts, "milestone", "", oks)
                      IN  [s     |-> IF LastOk(ps)
                                     THEN [c.s EXCEPT !.last_hole_milestone = Some(milestone)]
                                     ELSE c.s,
                           posts |-> ps]

\* Variant of MilestoneStep that does not compare with the last milestone announced.
MilestoneStep_AnyReached(p, c, oks) ==
    LET cur_hole == Get(p.thru)
        due      == {m \in UPDATE_MILESTONES : cur_hole >= m}
    IN  IF due = {} THEN c
        ELSE LET milestone == CHOOSE m \in due : \A o \in due : m <= o
             IN  IF c.s.last_alert_hole = Some(cur_hole)
                 THEN [c EXCEPT !.s.last_hole_milestone = Some(milestone)]
                 ELSE LET ps == post_tweet(c.posts, "milestone", "", oks)
                      IN  [s     |-> IF LastOk(ps)
                                     THEN [c.s EXCEPT !.last_hole_milestone = Some(milestone)]
                                     ELSE c.s,
                           posts |-> ps]

\* 5. Milestone update: the first milestone of sorted(UPDATE_MILESTONES) with
\* cur_hole >= milestone > last_milestone, then break
MilestoneStep(p, c, oks) ==
    LET cur_hole       == Get(p.thru)
        last_milestone == OrInt(c.s.last_hole_milestone, 0)
        due            == {m \in UPDATE_MILESTONES : cur_hole >= m /\ m > last_milestone}
    IN  IF due = {} THEN c
        ELSE LET milestone == CHOOSE m \in due : \A o \in due : m <= o
             IN  IF c.s.last_alert_hole = Some(cur_hole)
                 THEN [c EXCEPT !.s.last_hole_milestone = Some(milestone)]
                 ELSE LET ps == post_tweet(c.posts, "milestone", "", oks)
                      IN  [s     |-> IF LastOk(ps)
                                     THEN [c.s EXCEPT !.last_hole_milestone = Some(milestone)]
                                     ELSE c.s,
                           posts |-> ps]

\* decide_and_tweet(p, state): [s |-> the returned state, posts |-> the posts made]
decide_and_tweet(p, st, oks) ==
    IF p.missed_cut THEN MissedCutStep(p, st, oks)
    ELSE IF TeeTimePending(p) THEN TeeTimeStep(p, st, oks)
    ELSE LET s1 == ResetRoundCounters(p, st)
         IN  IF p.is_done THEN RoundFinishStep(p, s1, oks)
             ELSE LET c0 == [s |-> s1, posts |-> <<>>]
                      c  == IF p.is_live
                            THEN MilestoneStep(p, ScoreAlertStep(p, c0, oks), oks)
                            ELSE c0
                  IN  [s |-> PersistPlayer(p, c.s), posts |-> c.posts]

---------------------------------------------------------------------------
(* The feed the runs draw from.                                            *)

MaxRound == 2

EventNames == {"A", "B"}

ThruInt(n) == [k |-> "int", s |-> <<>>, n |-> n]

ThruText(s) == [k |-> "str", s |-> s, n |-> 0]

FeedThru == {ThruText(<<>>), ThruText(<<"F">>)} \cup {ThruInt(n) : n \in {5, 6, 13}}

FeedToday == {<<"E">>, <<"-", "2">>}

FeedTotal == {<<"-", "1">>}

FeedPosition == {<<"T", "5">>}

FeedTeeTime == {<<>>, <<"9", ":", "1", "0", " ", "A", "M">>, <<"C", "U", "T">>}

FeedStatusType == {<<>>}

\* the linescores list of a player in round `period`: the earlier rounds at even
\* par, then the current round's entry when there is one
Linescores(period, today) ==
    [i \in 1..(period - 1) |-> Some(<<"E">>)] \o (IF today = None THEN <<>> ELSE <<today>>)

Competitors ==
    {[score        |-> Some(total),
      position     |-> pos,
      thru         |-> th,
      period       |-> period,
      displayValue |-> tee,
      type_name    |-> ty,
      linescores   |-> Linescores(period, today)] :
        total \in FeedTotal, pos \in FeedPosition, th \in FeedThru,
        period \in 1..MaxRound, tee \in FeedTeeTime, ty \in FeedStatusType,
        today \in {Some(d) : d \in FeedToday}}

\* event names when the feed may also carry an empty name
AnyEventNames == {"", "A"}

\* what get_player_data(name) returns over the feed, for each event name
Snapshots == {get_player_data(name, pl) : name \in EventNames, pl \in Competitors}

AnySnapshots == {get_player_data(name, pl) : name \in AnyEventNames, pl \in Competitors}

\* the hours of the day, and the hours the runs of Spec start at
Hours == 0..23

HourSamples == {5, 14, 23}

PostOutcomes == [1..2 -> BOOLEAN]

---------------------------------------------------------------------------
(* The HTTP fetch and what main reads from it.  A leaderboard document is  *)
(* [events, athletes]: the events it lists, each [name, competitors], and  *)
(* the display names of the competitors it carries.                        *)

RETRIES == 3

DELAY == 2

\* Variant of FetchLoop that sleeps after every failed attempt, the last included.
RECURSIVE FetchLoop_AlwaysSleeps(_, _, _)
FetchLoop_AlwaysSleeps(answers, attempt, sleeps) ==
    IF attempt >= RETRIES
    THEN [data |-> None, calls |-> attempt, sleeps |-> sleeps]
    ELSE IF answers[attempt + 1] # None
    THEN [data |-> answers[attempt + 1], calls |-> attempt + 1, sleeps |-> sleeps]
    ELSE FetchLoop_AlwaysSleeps(answers, attempt + 1,
                                Append(sleeps, DELAY * (attempt + 1)))

\* the loop of fetch from `attempt` on (counted from 0 as in range(retries)), after
\* the sleeps made so far: what is returned, how many requests.get calls were made
\* and the time.sleep calls in order
RECURSIVE FetchLoop(_, _, _)
FetchLoop(answers, attempt, sleeps) ==
    IF attempt >= RETRIES
    THEN [data |-> None, calls |-> attempt, sleeps |-> sleeps]
    ELSE IF answers[attempt + 1] # None
    THEN [data |-> answers[attempt + 1], calls |-> attempt + 1, sleeps |-> sleeps]
    ELSE LET wait == DELAY * (attempt + 1)
         IN  FetchLoop(answers, attempt + 1,
                       IF attempt < RETRIES - 1 THEN Append(sleeps, wait) ELSE sleeps)

\* fetch(url): answers[k] is what the k-th requests.get gives, None for an exception
\* or an HTTP error status; the first document received is returned, None after
\* RETRIES failures.
fetch(answers) == FetchLoop(answers, 0, <<>>).data

GOLFER_NAME == <<"N", "e", "a", "l", " ", "S", "h", "i", "p", "l", "e", "y">>

OtherName == <<"S", "a", "m", " ", "B", "u", "r", "n", "s">>

\* get_active_pga_event(): the first event of the document, if it has competitors
get_active_pga_event(data) ==
    IF data = None THEN None
    ELSE IF Get(data).events = <<>> THEN None
    ELSE LET event == Get(data).events[1]
         IN  IF ~event.competitors THEN None ELSE Some(event.name)

\* get_player_data(): whether the document carries the golfer at all
GolferListed(data) ==
    /\ data # None
    /\ \E i \in 1..Len(Get(data).athletes) :
          Contains(Lower(Get(data).athletes[i]), Lower(GOLFER_NAME))

FeedDocuments(names) ==
    {[events |-> ev, athletes |-> at] :
        ev \in {<<>>} \cup {<<[name |-> n, competitors |-> c]>> : n \in names, c \in BOOLEAN},
        at \in {<<>>, <<OtherName>>, <<OtherName, Upper(GOLFER_NAME)>>}}

\* what fetch can return over the feed, whatever the attempts give
Fetched(names) ==
    {fetch(answers) :
        answers \in [1..RETRIES -> {None} \cup {Some(d) : d \in FeedDocuments(names)}]}

FetchedAny == Fetched(EventNames \cup AnyEventNames)

---------------------------------------------------------------------------
(* main: one run per step.                                                 *)

\* the hard reset when the tournament changes
ResetOnNewTournament(st, name) ==
    IF TruthyName(st.tournament) /\ st.tournament # Some(name)
    THEN DEFAULT_STATE
    ELSE st

\* Variant of ActiveHours that ends the day before 10 PM.
ActiveHours_EndsEarly(h) == 6 <= h /\ h < 22

ActiveHours(h) == 6 <= h /\ h <= 22

NoHistory ==
    [name   |-> None,   \* the tournament of the latest run that returned a state
     round  |-> None,   \* that run's round
     cut    |-> 0,      \* missed-cut messages delivered since the tournament changed
     flag   |-> FALSE,  \* a state returned since the tournament changed had missed_cut
     tee    |-> 0,      \* tee-time messages delivered since the round changed
     finish |-> 0,      \* round-finish messages delivered since the round changed
     six    |-> 0,      \* milestone messages for hole 6 delivered since the round changed
     twelve |-> 0,      \* milestone messages for hole 12 delivered since the round changed
     alerts |-> <<>>,   \* the holes of the score alerts delivered since the round changed
     six_at_six |-> FALSE,  \* since then a milestone message was delivered at thru = 6
     six_before |-> FALSE]  \* six_at_six as it was before the latest run

\* no state file yet and no run under way
InitMain ==
    /\ file = [exists |-> FALSE, data |-> DEFAULT_STATE]
    /\ outcome = "idle"
    /\ loaded = None
    /\ state = None
    /\ player = None
    /\ posts = <<>>
    /\ new_state = None
    /\ tracked = None
    /\ changed_from = None
    /\ hour = None
    /\ log = <<>>
    /\ history = NoHistory

Init ==
    /\ InitMain
    /\ args = None
    /\ result = None

\* outside golf hours: return before load_state
MainOutsideHours(hours) ==
    /\ outcome = "idle"
    /\ \E h \in hours :
          /\ ~ActiveHours(h)
          /\ hour' = Some(h)
    /\ outcome' = "outside_hours"
    /\ log' = <<>>
    /\ UNCHANGED <<file, loaded, state, player, posts, new_state, tracked, changed_from>>
    /\ UNCHANGED <<history, args, result>>

\* get_active_pga_event() returned None: the fetch failed, or the document lists no
\* event, or the event has no competitors yet
MainNoEvent(hours) ==
    /\ outcome = "idle"
    /\ \E h \in hours :
          /\ ActiveHours(h)
          /\ hour' = Some(h)
    /\ \E data \in FetchedAny :
          /\ get_active_pga_event(data) = None
          /\ outcome' = IF data = None THEN "fetch_failed" ELSE "no_event"
    /\ loaded' = Some(load_state(file))
    /\ state' = Some(load_state(file))
    /\ log' = <<"load_state", "fetch">>
    /\ UNCHANGED <<file, player, posts, new_state, tracked, changed_from>>
    /\ UNCHANGED <<history, args, result>>

\* Variant of MainNoPlayer that saves the state before it returns.
MainNoPlayer_SavesState(hours, names) ==
    /\ outcome = "idle"
    /\ \E h \in hours :
          /\ ActiveHours(h)
          /\ hour' = Some(h)
    /\ \E name \in names, data \in FetchedAny :
          /\ ~GolferListed(data)
          /\ outcome' = IF data = None THEN "fetch_failed" ELSE "no_player"
          /\ loaded' = Some(load_state(file))
          /\ state' = Some(ResetOnNewTournament(load_state(file), name))
          /\ file' = save_state(ResetOnNewTournament(load_state(file), name))
    /\ log' = <<"load_state", "fetch", "fetch", "save_state">>
    /\ UNCHANGED <<player, posts, new_state, tracked, changed_from>>
    /\ UNCHANGED <<history, args, result>>

\* get_player_data() returned None: the fetch failed, or the document carries no
\* competitors, or the golfer is not among them; the reset, if any, is not saved
MainNoPlayer(hours, names) ==
    /\ outcome = "idle"
    /\ \E h \in hours :
          /\ ActiveHours(h)
          /\ hour' = Some(h)
    /\ \E name \in names, data \in FetchedAny :
          /\ ~GolferListed(data)
          /\ outcome' = IF data = None THEN "fetch_failed" ELSE "no_player"
          /\ loaded' = Some(load_state(file))
          /\ state' = Some(ResetOnNewTournament(load_state(file), name))
    /\ log' = <<"load_state", "fetch", "fetch">>
    /\ UNCHANGED <<file, player, posts, new_state, tracked, changed_from>>
    /\ UNCHANGED <<history, args, result>>

\* the run reaches decide_and_tweet and save_state: both fetches gave a document, the
\* event has competitors and the golfer is among them
\* (the transport answers the posts as one of `outcomes`)
RunEngineWith(hours, snapshots, outcomes) ==
    /\ outcome = "idle"
    /\ \E h \in hours :
          /\ ActiveHours(h)
          /\ hour' = Some(h)
    /\ \E p \in snapshots, oks \in outcomes :
          \E st \in {ResetOnNewTournament(load_state(file), p.tournament)} :
          \E r \in {decide_and_tweet(p, st, oks)} :
              /\ \A k \in 1..2 : k > Len(r.posts) => oks[k]
              /\ outcome' = "saved"
              /\ loaded' = Some(load_state(file))
              /\ state' = Some(st)
              /\ player' = Some(p)
              /\ posts' = r.posts
              /\ new_state' = Some(r.s)
              /\ file' = save_state(r.s)
              /\ log' = <<"load_state", "fetch", "fetch">>
                           \o [k \in 1..Len(r.posts) |-> "post_tweet"]
                           \o <<"save_state">>
              /\ tracked' = Some(p.tournament)
              /\ changed_from' = IF tracked # None /\ tracked # Some(p.tournament)
                                 THEN tracked ELSE None

RunEngine(hours, snapshots) == RunEngineWith(hours, snapshots, PostOutcomes)

MainRun(hours, snapshots) ==
    /\ RunEngine(hours, snapshots)
    /\ UNCHANGED <<history, args, result>>

\* at most two of anything is counted
UpTo2(n) == IF n > 2 THEN 2 ELSE n

\* the history after a run over snapshot p that made the posts `made` and returned s
Recorded(h, p, made, s) ==
    LET same_name  == h.name = Some(p.tournament)
        same_round == same_name /\ h.round = Some(p.round)
        got(cat)   == IF \E k \in 1..Len(made) : made[k].cat = cat /\ made[k].ok
                      THEN 1 ELSE 0
        at(m)      == IF s.last_hole_milestone = Some(m) THEN got("milestone") ELSE 0
        since(n)   == IF same_round THEN n ELSE 0
        before     == IF same_round THEN h.alerts ELSE <<>>
    IN  [name   |-> Some(p.tournament),
         round  |-> Some(p.round),
         cut    |-> UpTo2((IF same_name THEN h.cut ELSE 0) + got("missed_cut")),
         flag   |-> (same_name /\ h.flag) \/ s.missed_cut,
         tee    |-> UpTo2(since(h.tee) + got("tee_time")),
         finish |-> UpTo2(since(h.finish) + got("round_finish")),
         six    |-> UpTo2(since(h.six) + at(6)),
         twelve |-> UpTo2(since(h.twelve) + at(12)),
         alerts |-> IF got("score_alert") = 0 THEN before
                    ELSE IF before = <<>> THEN <<Get(p.thru)>>
                    ELSE <<before[Len(before)], Get(p.thru)>>,
         six_at_six |-> \/ same_round /\ h.six_at_six
                        \/ got("milestone") = 1 /\ p.thru = Some(6),
         six_before |-> same_round /\ h.six_at_six]

\* the same run, with what it delivered added to the history
MainRunRecorded(hours, snapshots) ==
    /\ RunEngine(hours, snapshots)
    /\ history' = Recorded(history, Get(player'), posts', Get(new_state'))
    /\ UNCHANGED <<args, result>>

\* the process exits: its locals are gone, the file stays
MainExit ==
    /\ outcome \in {"outside_hours", "fetch_failed", "no_event", "no_player", "saved"}
    /\ outcome' = "idle"
    /\ loaded' = None
    /\ state' = None
    /\ player' = None
    /\ posts' = <<>>
    /\ new_state' = None
    /\ changed_from' = None
    /\ hour' = None
    /\ log' = <<>>
    /\ UNCHANGED <<file, tracked, history, args, result>>

Next ==
    \/ MainOutsideHours(HourSamples)
    \/ MainNoEvent(HourSamples)
    \/ MainNoPlayer(HourSamples, EventNames)
    \/ MainRun(HourSamples, Snapshots)
    \/ MainExit

Spec == Init /\ [][Next]_vars

\* the same runs over a feed whose event name may be empty
NextAnyName ==
    \/ MainOutsideHours(HourSamples)
    \/ MainNoEvent(HourSamples)
    \/ MainNoPlayer(HourSamples, AnyEventNames)
    \/ MainRun(HourSamples, AnySnapshots)
    \/ MainExit

SpecAnyName == Init /\ [][NextAnyName]_vars

\* what get_player_data returns over a feed with the given names, thru values,
\* round scores and status display values
SnapshotsOver(names, thrus, todays, tees) ==
    {get_player_data(name,
                     [score        |-> Some(total),
                      position     |-> pos,
                      thru         |-> th,
                      period       |-> period,
                      displayValue |-> tee,
                      type_name    |-> ty,
                      linescores   |-> Linescores(period, today)]) :
        name \in names, total \in FeedTotal, pos \in FeedPosition, th \in thrus,
        period \in 1..MaxRound, tee \in tees, ty \in FeedStatusType,
        today \in {Some(d) : d \in todays}}

\* runs at every hour of the day, over a feed with one tournament before and during
\* play
HourSnapshots ==
    SnapshotsOver({"A"}, {ThruText(<<>>), ThruInt(6)}, {<<"E">>}, {<<>>})

NextHours ==
    \/ MainOutsideHours(Hours)
    \/ MainNoEvent(Hours)
    \/ MainNoPlayer(Hours, {"A"})
    \/ MainRun(Hours, HourSnapshots)
    \/ MainExit

SpecHours == Init /\ [][NextHours]_vars

\* runs in sequence, with the history of what they delivered, over a feed that goes
\* through tee time, play, finish and cut in two tournaments
RoundSnapshots ==
    SnapshotsOver(EventNames,
                  {ThruText(<<>>), ThruText(<<"F">>), ThruInt(6)},
                  {<<"E">>},
                  FeedTeeTime)

NextRounds ==
    \/ MainOutsideHours(HourSamples)
    \/ MainNoEvent(HourSamples)
    \/ MainNoPlayer(HourSamples, EventNames)
    \/ MainRunRecorded(HourSamples, RoundSnapshots)
    \/ MainExit

SpecRounds == Init /\ [][NextRounds]_vars

\* runs in sequence, with the history of what they delivered, over a feed in which
\* play advances hole by hole in two tournaments
HoleSnapshots ==
    SnapshotsOver(EventNames,
                  {ThruText(<<>>)} \cup {ThruInt(n) : n \in {5, 6, 7, 12}},
                  FeedToday,
                  {<<>>, <<"C", "U", "T">>})

NextHoles ==
    \/ MainOutsideHours(HourSamples)
    \/ MainNoEvent(HourSamples)
    \/ MainNoPlayer(HourSamples, EventNames)
    \/ MainRunRecorded(HourSamples, HoleSnapshots)
    \/ MainExit

SpecHoles == Init /\ [][NextHoles]_vars

---------------------------------------------------------------------------
(* The helper functions on their own: the arguments are drawn at the       *)
(* start, the call stores what the function returns (result is None until  *)
(* then).                                                                  *)

MaxToday == 4

MaxThru == 6

TodayArgs == {None} \cup {Some(n) : n \in (0 - MaxToday)..MaxToday}

ThruArgs == {None} \cup {Some(n) : n \in 0..MaxThru}

InitScoreEvent ==
    /\ InitMain
    /\ args \in {Some(<<ot, nt, oh, nh>>) :
                    ot \in TodayArgs, nt \in TodayArgs, oh \in ThruArgs, nh \in ThruArgs}
    /\ result = None

CallDetectScoreEvent ==
    /\ args # None
    /\ result = None
    /\ result' = Some(detect_score_event(Get(args)[1], Get(args)[2],
                                          Get(args)[3], Get(args)[4]))
    /\ UNCHANGED <<file, outcome, loaded, state, player, posts, new_state, tracked,
                   changed_from, hour, log, history, args>>

SpecScoreEvent == InitScoreEvent /\ [][CallDetectScoreEvent]_vars

(* Runs in sequence with a ledger of what was delivered.  `result` holds   *)
(* the ledger: <<tournament, round, "six">> when a milestone message or a  *)
(* score alert reporting thru >= 6 was delivered in that round of that     *)
(* tournament, "twelve" likewise for 12, and "finish" for the round-finish *)
(* message; a run over another tournament, which resets the state, drops   *)
(* the entries of the tournament before.  The feed has play before and at  *)
(* hole 12, the end of the round and a pending tee time, in the rounds of  *)
(* two tournaments.                                                        *)
LedgerThru == {ThruText(<<>>), ThruText(<<"F">>), ThruInt(11), ThruInt(12)}

LedgerTeeTime == {<<"9", ":", "1", "0", " ", "A", "M">>}

LedgerSnapshots ==
    SnapshotsOver(EventNames,
                  LedgerThru, FeedToday, LedgerTeeTime)

\* what the posts `made` of a run over snapshot p add to the ledger
Ledgered(p, made) ==
    LET got(cat) == \E k \in 1..Len(made) : made[k].cat = cat /\ made[k].ok
        reported == got("milestone") \/ got("score_alert")
        kinds    == (IF reported /\ Get(p.thru) >= 6 THEN {"six"} ELSE {})
                      \cup (IF reported /\ Get(p.thru) >= 12 THEN {"twelve"} ELSE {})
                      \cup (IF got("round_finish") THEN {"finish"} ELSE {})
    IN  {<<p.tournament, p.round, k>> : k \in kinds}

MainRunLedgered(hours, snapshots) ==
    /\ RunEngine(hours, snapshots)
    /\ result' = {e \in result : e[1] = Get(player').tournament}
                      \cup Ledgered(Get(player'), posts')
    /\ UNCHANGED <<history, args>>

NextLedger ==
    \/ MainOutsideHours(HourSamples)
    \/ MainNoEvent(HourSamples)
    \/ MainNoPlayer(HourSamples, EventNames)
    \/ MainRunLedgered(HourSamples, LedgerSnapshots)
    \/ MainExit

SpecLedger == Init /\ [][NextLedger]_vars

(* The same when the feed may carry an event whose name is the empty       *)
(* string.                                                                 *)
LedgerAnySnapshots ==
    SnapshotsOver(AnyEventNames, LedgerThru, FeedToday, LedgerTeeTime)

NextLedgerAnyName ==
    \/ MainOutsideHours(HourSamples)
    \/ MainNoEvent(HourSamples)
    \/ MainNoPlayer(HourSamples, AnyEventNames)
    \/ MainRunLedgered(HourSamples, LedgerAnySnapshots)
    \/ MainExit

SpecLedgerAnyName == Init /\ [][NextLedgerAnyName]_vars

(* Runs of main that may overlap.  Nothing in main locks the state file,   *)
(* so a second run may start while a first is between its load_state and   *)
(* its save_state.  args holds for each run its position and its locals.   *)
(* A run loads the state; then fetches, decides and posts; then opens the  *)
(* file for writing, which empties it; then writes.  A load_state that     *)
(* finds the file emptied gets JSONDecodeError and so the defaults, as it  *)
(* does when there is no file: the emptied file is written here as a       *)
(* missing one.  result counts the deliveries of each category (up to 2)   *)
(* and tells whether a run ever loaded while another was under way.  The   *)
(* feed stays in round 1 of one tournament.                                *)
Runs == 1..2

IdleRun == [pc |-> "idle", state |-> None, player |-> None, new_state |-> None]

OverlapCategories == {"tee_time", "milestone", "round_finish"}

OverlapSnapshots ==
    {p \in SnapshotsOver({"A"},
                         {ThruText(<<>>), ThruText(<<"F">>), ThruInt(6)},
                         {<<"E">>}, LedgerTeeTime) : p.round = 1}

InitOverlap ==
    /\ InitMain
    /\ args = [i \in Runs |-> IdleRun]
    /\ result = [delivered  |-> [cat \in OverlapCategories |-> 0],
                 overlapped |-> FALSE]

\* state = load_state()
RunLoads(i) ==
    /\ args[i].pc = "idle"
    /\ args' = [args EXCEPT ![i] = [IdleRun EXCEPT !.pc = "loaded",
                                                   !.state = Some(load_state(file))]]
    /\ result' = [result EXCEPT
                     !.overlapped = @ \/ \E j \in Runs \ {i} : args[j].pc # "idle"]
    /\ UNCHANGED <<file, outcome, loaded, state, player, posts, new_state, tracked,
                   changed_from, hour, log, history>>

\* the deliveries counted in d after the posts `made`
Counted(d, made) ==
    [cat \in OverlapCategories |->
        UpTo2(d[cat] + (IF \E k \in 1..Len(made) : made[k].cat = cat /\ made[k].ok
                        THEN 1 ELSE 0))]

\* get_active_pga_event(), the reset on a new tournament, get_player_data() and
\* decide_and_tweet() with its posts
RunDecides(i) ==
    /\ args[i].pc = "loaded"
    /\ \E p \in OverlapSnapshots, oks \in PostOutcomes :
          \E st \in {ResetOnNewTournament(Get(args[i].state), p.tournament)} :
          \E r \in {decide_and_tweet(p, st, oks)} :
              /\ \A k \in 1..2 : k > Len(r.posts) => oks[k]
              /\ args' = [args EXCEPT ![i] = [pc        |-> "decided",
                                              state     |-> Some(st),
                                              player    |-> Some(p),
                                              new_state |-> Some(r.s)]]
              /\ result' = [result EXCEPT !.delivered = Counted(@, r.posts)]
    /\ UNCHANGED <<file, outcome, loaded, state, player, posts, new_state, tracked,
                   changed_from, hour, log, history>>

\* save_state(new_state): open(STATE_FILE, "w")
RunOpensFile(i) ==
    /\ args[i].pc = "decided"
    /\ args' = [args EXCEPT ![i].pc = "writing"]
    /\ file' = [exists |-> FALSE, data |-> DEFAULT_STATE]
    /\ UNCHANGED <<outcome, loaded, state, player, posts, new_state, tracked,
                   changed_from, hour, log, history, result>>

\* Variant of Written that writes the state the run loaded.
Written_LoadedState(run) == save_state(Get(run.state))

\* the file after json.dump(new_state, f)
Written(run) == save_state(Get(run.new_state))

\* save_state(new_state): json.dump and close; the run ends
RunWrites(i) ==
    /\ args[i].pc = "writing"
    /\ file' = Written(args[i])
    /\ args' = [args EXCEPT ![i] = IdleRun]
    /\ UNCHANGED <<outcome, loaded, state, player, posts, new_state, tracked,
                   changed_from, hour, log, history, result>>

NextOverlap ==
    \E i \in Runs :
        \/ RunLoads(i)
        \/ RunDecides(i)
        \/ RunOpensFile(i)
        \/ RunWrites(i)

SpecOverlap == InitOverlap /\ [][NextOverlap]_vars

(* The earlier revision, pga_bot2.py: a script that renders the golfer's   *)
(* status as a text and posts the text when it differs from the text it    *)
(* stored last.  An entry of the leaderboard is [position, total_score,    *)
(* today_score, thru, period, tee_time], what the script reads from the    *)
(* golfer's competitor record (today_score already 'E' when the round has  *)
(* no line score); no entry stands for a failed fetch, a document without  *)
(* competitors and a leaderboard without the golfer.                       *)

\* "in the field", the placeholder for a missing position
in_the_field == <<"i", "n", " ", "t", "h", "e", " ", "f", "i", "e", "l", "d">>

\* position.replace('T', '').replace('-', '').replace('st', '').replace('nd', '')
\* .replace('rd', '').replace('th', '') and int() of it, None when int() raises or
\* the position is empty or the placeholder
position_num_of(position) ==
    IF position = <<>> \/ position = in_the_field THEN None
    ELSE ParseInt(Remove(Remove(Remove(Remove(Remove(Remove(position,
             <<"T">>), <<"-">>), <<"s", "t">>), <<"n", "d">>), <<"r", "d">>), <<"t", "h">>))

\* int(score.replace('+', '').replace('-', ''))
unsigned_of(score) == ParseInt(Remove(Remove(score, <<"+">>), <<"-">>))

\* get_fun_commentary(position, total_score, today_score, round_num): the texts it
\* may return, random.choice of the commentary list or "" when the list is empty
get_fun_commentary(position, total_score, today_score, rd_num) ==
    LET position_num == position_num_of(position)
        score_value  == IF total_score = <<>> \/ total_score = <<"E">>
                           \/ unsigned_of(total_score) = None
                        THEN 0
                        ELSE IF Contains(total_score, <<"-">>)
                        THEN 0 - Get(unsigned_of(total_score))
                        ELSE Get(unsigned_of(total_score))
        today_val    == unsigned_of(today_score)
        by_position  == IF position_num = None \/ position_num = Some(0) THEN {}
                        ELSE IF Get(position_num) = 1 THEN
                             {<<"~", " ", "L", "e", "a", "d", "i", "n",
                                  "g", " ", "t", "h", "e", " ", "w", "a", "y",
                                  "!">>}
                             \cup {<<"~", " ", "T", "o", "p", " ", "o", "f",
                                  " ", "t", "h", "e", " ", "l", "e", "a", "d",
                                  "e", "r", "b", "o", "a", "r", "d", "!">>}
                             \cup {<<"~", " ", "I", "n", " ", "f", "i", "r",
                                  "s", "t", " ", "p", "l", "a", "c", "e",
                                  "!">>}
                             \cup {<<"~", " ", "S", "u", "m", "m", "i", "t",
                                  " ", "s", "e", "c", "u", "r", "e", "d",
                                  "!">>}
                             \cup {<<"~", " ", "H", "o", "l", "d", "i", "n",
                                  "g", " ", "d", "o", "w", "n", " ", "#", "1",
                                  "!">>}
                             \cup {<<"~", " ", "T", "h", "a", "t", "'", "s",
                                  " ", "h", "o", "w", " ", "y", "o", "u", " ",
                                  "d", "o", " ", "i", "t", "!">>}
                             \cup {<<"~", " ", "C", "a", "n", "'", "t", " ",
                                  "g", "e", "t", " ", "b", "e", "t", "t", "e",
                                  "r", " ", "t", "h", "a", "n", " ", "t", "h",
                                  "i", "s", "!">>}
                             \cup {<<"~", " ", "N", "u", "m", "b", "e", "r",
                                  " ", "1", " ", "b", "a", "b", "y", "!">>}
                        ELSE IF Get(position_num) <= 5 THEN
                             {<<"~", " ", "I", "n", " ", "t", "h", "e",
                                  " ", "m", "i", "x", "!">>}
                             \cup {<<"~", " ", "H", "u", "n", "t", "i", "n",
                                  "g", " ", "f", "o", "r", " ", "t", "h", "e",
                                  " ", "l", "e", "a", "d", "!">>}
                             \cup {<<"~", " ", "T", "o", "p", " ", "5", " ",
                                  "t", "e", "r", "r", "i", "t", "o", "r", "y",
                                  "!">>}
                             \cup {<<"~", " ", "C", "h", "a", "r", "g", "i",
                                  "n", "g", " ", "u", "p", " ", "t", "h", "e",
                                  " ", "b", "o", "a", "r", "d", "!">>}
                             \cup {<<"~", " ", "R", "i", "g", "h", "t", " ",
                                  "i", "n", " ", "c", "o", "n", "t", "e", "n",
                                  "t", "i", "o", "n", "!">>}
                             \cup {<<"~", " ", "M", "a", "k", "i", "n", "g",
                                  " ", "a", " ", "r", "u", "n", "!">>}
                             \cup {<<"~", " ", "B", "u", "s", "i", "n", "e",
                                  "s", "s", " ", "i", "s", " ", "g", "o", "o",
                                  "d", "!">>}
                             \cup {<<"~", " ", "S", "u", "n", "d", "a", "y",
                                  " ", "c", "h", "a", "r", "g", "e", " ", "l",
                                  "o", "a", "d", "i", "n", "g", ".", ".",
                                  ".">>}
                        ELSE IF Get(position_num) <= 10 THEN
                             {<<"~", " ", "S", "o", "l", "i", "d", " ",
                                  "p", "o", "s", "i", "t", "i", "o", "n",
                                  "!">>}
                             \cup {<<"~", " ", "R", "i", "g", "h", "t", " ",
                                  "w", "h", "e", "r", "e", " ", "w", "e", " ",
                                  "w", "a", "n", "t", " ", "t", "o", " ", "b",
                                  "e", "!">>}
                             \cup {<<"~", " ", "T", "o", "p", " ", "1", "0",
                                  " ", "w", "a", "t", "c", "h", "!">>}
                             \cup {<<"~", " ", "M", "a", "k", "i", "n", "g",
                                  " ", "m", "o", "v", "e", "s", "!">>}
                             \cup {<<"~", " ", "H", "a", "n", "g", "i", "n",
                                  "g", " ", "a", "r", "o", "u", "n", "d", " ",
                                  "t", "h", "e", " ", "t", "o", "p", "!">>}
                             \cup {<<"~", " ", "B", "u", "i", "l", "d", "i",
                                  "n", "g", " ", "m", "o", "m", "e", "n", "t",
                                  "u", "m", "!">>}
                             \cup {<<"~", " ", "S", "t", "e", "a", "d", "y",
                                  " ", "c", "l", "i", "m", "b", "i", "n", "g",
                                  "!">>}
                             \cup {<<"~", " ", "L", "o", "o", "k", "i", "n",
                                  "g", " ", "g", "o", "o", "d", " ", "o", "u",
                                  "t", " ", "t", "h", "e", "r", "e", "!">>}
                        ELSE IF Get(position_num) <= 20 THEN
                             {<<"~", " ", "S", "t", "e", "a", "d", "y",
                                  " ", "c", "l", "i", "m", "b", "i", "n", "g",
                                  "!">>}
                             \cup {<<"~", " ", "B", "u", "i", "l", "d", "i",
                                  "n", "g", " ", "s", "o", "m", "e", "t", "h",
                                  "i", "n", "g", " ", "h", "e", "r", "e",
                                  "!">>}
                             \cup {<<"~", " ", "G", "r", "i", "n", "d", "i",
                                  "n", "g", "!">>}
                             \cup {<<"~", " ", "W", "o", "r", "k", "i", "n",
                                  "g", " ", "i", "n", "t", "o", " ", "p", "o",
                                  "s", "i", "t", "i", "o", "n", "!">>}
                             \cup {<<"~", " ", "R", "o", "o", "m", " ", "t",
                                  "o", " ", "m", "o", "v", "e", "!">>}
                             \cup {<<"~", "~", " ", "L", "o", "t", "s", " ",
                                  "o", "f", " ", "g", "o", "l", "f", " ", "l",
                                  "e", "f", "t", "!">>}
                             \cup {<<"~", " ", "P", "a", "t", "i", "e", "n",
                                  "c", "e", " ", "i", "s", " ", "k", "e", "y",
                                  "!">>}
                             \cup {<<"~", " ", "P", "u", "t", "t", "i", "n",
                                  "g", " ", "i", "n", " ", "t", "h", "e", " ",
                                  "w", "o", "r", "k", "!">>}
                        ELSE IF Get(position_num) <= 30 THEN
                             {<<"~", "~", " ", "P", "u", "t", "t", "i",
                                  "n", "g", " ", "i", "n", " ", "w", "o", "r",
                                  "k", "!">>}
                             \cup {<<"~", "~", " ", "B", "u", "i", "l", "d",
                                  "i", "n", "g", " ", "a", " ", "r", "o", "u",
                                  "n", "d", "!">>}
                             \cup {<<"~", " ", "P", "l", "e", "n", "t", "y",
                                  " ", "o", "f", " ", "h", "o", "l", "e", "s",
                                  " ", "l", "e", "f", "t", "!">>}
                             \cup {<<"~", " ", "S", "t", "a", "y", "i", "n",
                                  "g", " ", "p", "a", "t", "i", "e", "n", "t",
                                  "!">>}
                             \cup {<<"~", " ", "B", "a", "t", "t", "l", "e",
                                  " ", "m", "o", "d", "e", " ", "e", "n", "g",
                                  "a", "g", "e", "d", "!">>}
                             \cup {<<"~", " ", "W", "o", "r", "k", "i", "n",
                                  "g", " ", "t", "h", "r", "o", "u", "g", "h",
                                  " ", "i", "t", "!">>}
                             \cup {<<"~", " ", "G", "r", "i", "n", "d", " ",
                                  "d", "o", "n", "'", "t", " ", "s", "t", "o",
                                  "p", "!">>}
                             \cup {<<"~", " ", "M", "a", "k", "i", "n", "g",
                                  " ", "i", "t", " ", "h", "a", "p", "p", "e",
                                  "n", "!">>}
                        ELSE {<<"~", " ", "K", "e", "e", "p", " ", "f",
                                  "i", "g", "h", "t", "i", "n", "g", "!">>}
                             \cup {<<"~", " ", "N", "e", "v", "e", "r", " ",
                                  "g", "i", "v", "e", " ", "u", "p", "!">>}
                             \cup {<<"~", " ", "G", "r", "i", "n", "d", "i",
                                  "n", "g", " ", "t", "h", "r", "o", "u", "g",
                                  "h", "!">>}
                             \cup {<<"~", " ", "F", "i", "n", "d", "i", "n",
                                  "g", " ", "t", "h", "e", " ", "r", "h", "y",
                                  "t", "h", "m", "!">>}
                             \cup {<<"~", "~", " ", "B", "u", "i", "l", "d",
                                  "i", "n", "g", " ", "b", "l", "o", "c", "k",
                                  "s", "!">>}
                             \cup {<<"~", " ", "W", "o", "r", "k", "i", "n",
                                  "g", " ", "o", "n", " ", "i", "t", "!">>}
                             \cup {<<"~", " ", "S", "t", "a", "y", "i", "n",
                                  "g", " ", "p", "o", "s", "i", "t", "i", "v",
                                  "e", "!">>}
        by_score     == IF score_value <= 0 - 8 THEN
                             {<<"~", "~", "~", " ", "U", "N", "C", "O",
                                  "N", "S", "C", "I", "O", "U", "S", "!">>}
                             \cup {<<"~", " ", "B", "I", "R", "D", "I", "E",
                                  " ", "F", "E", "S", "T", "!", " ", "~">>}
                             \cup {<<"~", " ", "S", "O", "M", "E", "B", "O",
                                  "D", "Y", " ", "S", "T", "O", "P", " ", "H",
                                  "I", "M", "!">>}
                             \cup {<<"~", " ", "E", "v", "e", "r", "y", "t",
                                  "h", "i", "n", "g", "'", "s", " ", "d", "r",
                                  "o", "p", "p", "i", "n", "g", "!">>}
                             \cup {<<"~", " ", "C", "a", "n", "'", "t", " ",
                                  "m", "i", "s", "s", " ", "r", "i", "g", "h",
                                  "t", " ", "n", "o", "w", "!">>}
                        ELSE IF score_value <= 0 - 5 THEN
                             {<<"~", "~", "~">>}
                             \cup {<<"B", "i", "r", "d", "i", "e", " ", "m",
                                  "a", "c", "h", "i", "n", "e", " ", "m", "o",
                                  "d", "e", "!">>}
                             \cup {<<"T", "h", "e", " ", "p", "u", "t", "t",
                                  "e", "r", " ", "i", "s", " ", "H", "O", "T",
                                  "!", " ", "~">>}
                             \cup {<<"G", "o", "i", "n", "g", " ", "L", "O",
                                  "W", "!">>}
                             \cup {<<"R", "e", "d", " ", "n", "u", "m", "b",
                                  "e", "r", "s", " ", "a", "l", "l", " ", "d",
                                  "a", "y", "!">>}
                             \cup {<<"~", "~", "~", " ", "B", "i", "r", "d",
                                  "i", "e", " ", "p", "a", "r", "t", "y",
                                  "!">>}
                             \cup {<<"~", " ", "D", "i", "a", "l", "e", "d",
                                  " ", "i", "n", "!">>}
                             \cup {<<"~", " ", "L", "o", "c", "k", "e", "d",
                                  " ", "i", "n", "!">>}
                        ELSE IF score_value <= 0 - 2 THEN
                             {<<"M", "a", "k", "i", "n", "g", " ", "b",
                                  "i", "r", "d", "i", "e", "s", "!", " ",
                                  "~">>}
                             \cup {<<"R", "o", "l", "l", "i", "n", "g", " ",
                                  "i", "n", " ", "p", "u", "t", "t", "s", "!",
                                  " ", "~">>}
                             \cup {<<"U", "n", "d", "e", "r", " ", "p", "a",
                                  "r", " ", "a", "n", "d", " ", "m", "o", "v",
                                  "i", "n", "g", "!", " ", "~">>}
                             \cup {<<"R", "e", "d", " ", "n", "u", "m", "b",
                                  "e", "r", "s", "!", " ", "~">>}
                             \cup {<<"C", "l", "e", "a", "n", " ", "g", "o",
                                  "l", "f", "!", " ", "~">>}
                             \cup {<<"~", " ", "S", "t", "e", "a", "d", "y",
                                  " ", "r", "o", "u", "n", "d", "s", "!">>}
                             \cup {<<"~", " ", "S", "o", "l", "i", "d", " ",
                                  "p", "l", "a", "y", "!">>}
                             \cup {<<"~", " ", "F", "i", "n", "d", "i", "n",
                                  "g", " ", "g", "r", "e", "e", "n", "s",
                                  "!">>}
                        ELSE IF score_value >= 5 THEN
                             {<<"T", "o", "u", "g", "h", " ", "d", "a",
                                  "y", " ", "a", "t", " ", "t", "h", "e", " ",
                                  "o", "f", "f", "i", "c", "e", " ", "~">>}
                             \cup {<<"B", "a", "t", "t", "l", "e", " ", "m",
                                  "o", "d", "e", "!", " ", "~">>}
                             \cup {<<"G", "r", "i", "n", "d", "i", "n", "g",
                                  " ", "i", "t", " ", "o", "u", "t", "!">>}
                             \cup {<<"C", "h", "a", "r", "a", "c", "t", "e",
                                  "r", " ", "b", "u", "i", "l", "d", "i", "n",
                                  "g", " ", "r", "o", "u", "n", "d", "!">>}
                             \cup {<<"N", "o", "t", " ", "g", "i", "v", "i",
                                  "n", "g", " ", "u", "p", "!", " ", "~">>}
                             \cup {<<"~", " ", "S", "t", "a", "y", " ", "p",
                                  "a", "t", "i", "e", "n", "t", "!">>}
                             \cup {<<"~", " ", "W", "o", "r", "k", " ", "t",
                                  "o", " ", "d", "o", "!">>}
                             \cup {<<"~", " ", "F", "i", "x", "i", "n", "g",
                                  " ", "t", "h", "i", "n", "g", "s", "!">>}
                        ELSE IF score_value >= 2 THEN
                             {<<"F", "i", "n", "d", "i", "n", "g", " ",
                                  "h", "i", "s", " ", "w", "a", "y", " ", "b",
                                  "a", "c", "k", "!", " ", "~">>}
                             \cup {<<"S", "t", "a", "y", " ", "p", "a", "t",
                                  "i", "e", "n", "t", "!", " ", "~">>}
                             \cup {<<"R", "e", "c", "o", "v", "e", "r", "y",
                                  " ", "m", "o", "d", "e", "!", " ", "~">>}
                             \cup {<<"P", "l", "e", "n", "t", "y", " ", "o",
                                  "f", " ", "g", "o", "l", "f", " ", "l", "e",
                                  "f", "t", "!">>}
                             \cup {<<"T", "h", "e", " ", "c", "o", "m", "e",
                                  "b", "a", "c", "k", " ", "i", "s", " ", "O",
                                  "N", "!", " ", "~">>}
                             \cup {<<"~", " ", "B", "u", "i", "l", "d", "i",
                                  "n", "g", " ", "b", "a", "c", "k", "!">>}
                             \cup {<<"~", " ", "S", "t", "a", "y", "i", "n",
                                  "g", " ", "f", "o", "c", "u", "s", "e", "d",
                                  "!">>}
                             \cup {<<"~", " ", "W", "o", "r", "k", "i", "n",
                                  "g", " ", "t", "h", "r", "o", "u", "g", "h",
                                  " ", "i", "t", "!">>}
                        ELSE {}
        by_today     == IF today_score = <<>> \/ today_score = <<"E">> \/ today_val = None
                        THEN {}
                        ELSE IF Contains(today_score, <<"-">>) THEN
                             IF Get(today_val) >= 5 THEN
                             {<<"~", " ", "H", "o", "t", " ", "r", "o",
                                  "u", "n", "d", " ", "t", "o", "d", "a", "y",
                                  "!">>}
                             \cup {<<"~", " ", "G", "o", "i", "n", "g", " ",
                                  "d", "e", "e", "p", " ", "t", "o", "d", "a",
                                  "y", "!">>}
                             \cup {<<"~", " ", "O", "n", " ", "F", "I", "R",
                                  "E", " ", "t", "o", "d", "a", "y", "!">>}
                             \cup {<<"~", " ", "E", "x", "p", "l", "o", "s",
                                  "i", "v", "e", " ", "r", "o", "u", "n", "d",
                                  "!">>}
                             \cup {<<"~", " ", "L", "I", "G", "H", "T", "S",
                                  " ", "O", "U", "T", " ", "t", "o", "d", "a",
                                  "y", "!">>}
                             ELSE IF Get(today_val) >= 3 THEN
                             {<<"~", " ", "H", "e", "a", "t", "i", "n",
                                  "g", " ", "u", "p", "!">>}
                             \cup {<<"~", " ", "D", "i", "a", "l", "i", "n",
                                  "g", " ", "i", "t", " ", "i", "n", "!">>}
                             \cup {<<"~", " ", "R", "o", "l", "l", "i", "n",
                                  "g", " ", "t", "o", "d", "a", "y", "!">>}
                             \cup {<<"~", " ", "G", "r", "e", "a", "t", " ",
                                  "r", "h", "y", "t", "h", "m", " ", "t", "o",
                                  "d", "a", "y", "!">>}
                             ELSE {}
                        ELSE IF Contains(today_score, <<"+">>) THEN
                             IF Get(today_val) >= 4 THEN
                             {<<"~", " ", "B", "a", "t", "t", "l", "i",
                                  "n", "g", " ", "h", "a", "r", "d", " ", "t",
                                  "o", "d", "a", "y", "!">>}
                             \cup {<<"~", " ", "T", "o", "u", "g", "h", " ",
                                  "g", "r", "i", "n", "d", " ", "t", "o", "d",
                                  "a", "y", "!">>}
                             \cup {<<"~", " ", "S", "h", "a", "k", "e", " ",
                                  "i", "t", " ", "o", "f", "f", "!">>}
                             \cup {<<"~", " ", "A", "d", "v", "e", "r", "s",
                                  "i", "t", "y", " ", "c", "h", "e", "c", "k",
                                  "!">>}
                             ELSE IF Get(today_val) >= 2 THEN
                             {<<"~", "~", " ", "G", "r", "i", "n", "d",
                                  "i", "n", "g", " ", "t", "o", "d", "a", "y",
                                  "!">>}
                             \cup {<<"~", " ", "W", "o", "r", "k", "i", "n",
                                  "g", " ", "t", "h", "r", "o", "u", "g", "h",
                                  " ", "i", "t", "!">>}
                             \cup {<<"~", " ", "F", "i", "n", "d", "i", "n",
                                  "g", " ", "i", "t", "!">>}
                             \cup {<<"~", " ", "S", "t", "a", "y", " ", "p",
                                  "a", "t", "i", "e", "n", "t", "!">>}
                             ELSE {}
                        ELSE {}
        by_round     == IF rd_num = 4 THEN
                             {<<"~", " ", "F", "i", "n", "a", "l", " ",
                                  "r", "o", "u", "n", "d", "!">>}
                             \cup {<<"~", " ", "S", "u", "n", "d", "a", "y",
                                  " ", "f", "u", "n", "d", "a", "y", "!">>}
                             \cup {<<"~", " ", "F", "i", "n", "i", "s", "h",
                                  " ", "s", "t", "r", "o", "n", "g", "!">>}
                             \cup {<<"~", " ", "L", "a", "s", "t", " ", "p",
                                  "u", "s", "h", "!">>}
                        ELSE IF rd_num = 3 THEN
                             {<<"~", " ", "M", "o", "v", "i", "n", "g",
                                  " ", "d", "a", "y", "!">>}
                             \cup {<<"~", " ", "S", "a", "t", "u", "r", "d",
                                  "a", "y", " ", "c", "h", "a", "r", "g", "e",
                                  "!">>}
                             \cup {<<"~", " ", "M", "a", "k", "e", " ", "a",
                                  " ", "m", "o", "v", "e", "!">>}
                        ELSE {}
        commentary   == by_position \cup by_score \cup by_today \cup by_round
    IN  IF commentary = {} THEN {<<>>} ELSE commentary

\* generate_active_play_tweet(tournament_info): the texts it may return
generate_active_play_tweet(info) ==
    LET tournament     == info.tournament_name
        today_score    == info.today_score
        total_score    == info.total_score
        position       == info.position
        hole           == info.hole
        rd             == IntToStr(info.round)
        commentary     == get_fun_commentary(position, total_score, today_score, info.round)
        core_templates == IF position # <<>> /\ position # in_the_field THEN
                               {<<"N", "e", "a", "l", " ", "S", "h", "i",
                                    "p", "l", "e", "y",
                                    " ">> \o position \o <<" ", "a", "t", " ",
                                    "t", "h", "e",
                                    " ">> \o tournament \o <<".",
                                    " ">> \o today_score \o <<" ", "t", "o",
                                    "d", "a", "y", " ", "t", "h", "r", "o",
                                    "u", "g", "h", " ">> \o hole \o <<" ",
                                    "(">> \o total_score \o <<" ", "o", "v",
                                    "e", "r", "a", "l", "l", ")", ".">>}
                               \cup {position \o <<" ", "t", "h", "r", "o",
                                    "u", "g", "h", " ">> \o hole \o <<" ", "h",
                                    "o", "l", "e", "s", "!", " ", "N", "e",
                                    "a", "l", ":",
                                    " ">> \o today_score \o <<" ", "t", "o",
                                    "d", "a", "y", ",",
                                    " ">> \o total_score \o <<" ", "o", "v",
                                    "e", "r", "a", "l", "l", " ", "a", "t",
                                    " ", "t", "h", "e",
                                    " ">> \o tournament \o <<".">>}
                               \cup {<<"R", "o", "u", "n", "d",
                                    " ">> \o rd \o <<" ", "u", "p", "d", "a",
                                    "t", "e", ":", " ", "N", "e", "a", "l",
                                    " ", "S", "h", "i", "p", "l", "e", "y",
                                    " ">> \o position \o <<",",
                                    " ">> \o today_score \o <<" ", "t", "h",
                                    "r", "o", "u", "g", "h",
                                    " ">> \o hole \o <<" ",
                                    "(">> \o total_score \o <<" ", "t", "o",
                                    "t", "a", "l", ")", " ", "a", "t", " ",
                                    "t", "h", "e",
                                    " ">> \o tournament \o <<".">>}
                               \cup {<<"N", "e", "a", "l", " ", "S", "h", "i",
                                    "p", "l", "e", "y", " ", "s", "i", "t",
                                    "s", " ">> \o position \o <<" ", "a", "t",
                                    " ">> \o total_score \o <<" ", "o", "v",
                                    "e", "r", "a", "l", "l", ".",
                                    " ">> \o today_score \o <<" ", "t", "o",
                                    "d", "a", "y", " ", "t", "h", "r", "o",
                                    "u", "g", "h", " ">> \o hole \o <<" ", "a",
                                    "t", " ", "t", "h", "e",
                                    " ">> \o tournament \o <<".">>}
                               \cup {tournament \o <<":", " ", "N", "e", "a",
                                    "l", " ", "S", "h", "i", "p", "l", "e",
                                    "y", " ">> \o position \o <<" ", "a", "t",
                                    " ">> \o total_score \o <<".", " ", "T",
                                    "h", "r", "o", "u", "g", "h",
                                    " ">> \o hole \o <<" ", "h", "o", "l", "e",
                                    "s", " ", "a", "t",
                                    " ">> \o today_score \o <<" ", "t", "o",
                                    "d", "a", "y", ".">>}
                               \cup {<<"C", "u", "r", "r", "e", "n", "t", "l",
                                    "y", " ">> \o position \o <<":", " ", "N",
                                    "e", "a", "l",
                                    " ">> \o today_score \o <<" ", "t", "h",
                                    "r", "o", "u", "g", "h",
                                    " ">> \o hole \o <<" ", "t", "o", "d", "a",
                                    "y", ",", " ">> \o total_score \o <<" ",
                                    "o", "v", "e", "r", "a", "l", "l", " ",
                                    "a", "t", " ", "t", "h", "e",
                                    " ">> \o tournament \o <<".">>}
                               \cup {<<"N", "e", "a", "l", " ", "S", "h", "i",
                                    "p", "l", "e", "y",
                                    " ">> \o today_score \o <<" ", "t", "o",
                                    "d", "a", "y", " ", "t", "h", "r", "o",
                                    "u", "g", "h", " ">> \o hole \o <<" ", "h",
                                    "o", "l", "e", "s", ".",
                                    " ">> \o position \o <<" ",
                                    "(">> \o total_score \o <<")", " ", "a",
                                    "t", " ", "t", "h", "e",
                                    " ">> \o tournament \o <<".">>}
                               \cup {position \o <<"!", " ", "N", "e", "a",
                                    "l", " ", "S", "h", "i", "p", "l", "e",
                                    "y", " ", "a", "t",
                                    " ">> \o total_score \o <<" ", "t", "o",
                                    "t", "a", "l", ",",
                                    " ">> \o today_score \o <<" ", "t", "h",
                                    "r", "o", "u", "g", "h",
                                    " ">> \o hole \o <<" ", "t", "o", "d", "a",
                                    "y", " ", "a", "t", " ", "t", "h", "e",
                                    " ">> \o tournament \o <<".">>}
                               \cup {<<"N", "e", "a", "l", " ", "s", "i", "t",
                                    "s", " ">> \o position \o <<" ", "a", "t",
                                    " ", "t", "h", "e",
                                    " ">> \o tournament \o <<" ",
                                    "(">> \o total_score \o <<")", ".",
                                    " ">> \o today_score \o <<" ", "t", "o",
                                    "d", "a", "y", " ", "t", "h", "r", "o",
                                    "u", "g", "h", " ">> \o hole \o <<" ", "i",
                                    "n", " ", "R">> \o rd \o <<".">>}
                          ELSE {<<"N", "e", "a", "l", " ", "S", "h", "i",
                                    "p", "l", "e", "y",
                                    " ">> \o today_score \o <<" ", "t", "o",
                                    "d", "a", "y", " ",
                                    "(">> \o total_score \o <<" ", "o", "v",
                                    "e", "r", "a", "l", "l", ")", " ", "t",
                                    "h", "r", "o", "u", "g", "h",
                                    " ">> \o hole \o <<" ", "h", "o", "l", "e",
                                    "s", " ", "a", "t", " ", "t", "h", "e",
                                    " ">> \o tournament \o <<".">>}
                               \cup {<<"T", "h", "r", "o", "u", "g", "h",
                                    " ">> \o hole \o <<" ", "h", "o", "l", "e",
                                    "s", ":", " ", "N", "e", "a", "l", " ",
                                    "S", "h", "i", "p", "l", "e", "y",
                                    " ">> \o today_score \o <<" ", "t", "o",
                                    "d", "a", "y", ",",
                                    " ">> \o total_score \o <<" ", "t", "o",
                                    "t", "a", "l", " ", "a", "t", " ", "t",
                                    "h", "e", " ">> \o tournament \o <<".">>}
                               \cup {<<"R", "o", "u", "n", "d",
                                    " ">> \o rd \o <<":", " ", "N", "e", "a",
                                    "l", " ">> \o today_score \o <<" ", "t",
                                    "h", "r", "o", "u", "g", "h",
                                    " ">> \o hole \o <<" ",
                                    "(">> \o total_score \o <<" ", "o", "v",
                                    "e", "r", "a", "l", "l", ")", " ", "a",
                                    "t", " ", "t", "h", "e",
                                    " ">> \o tournament \o <<".">>}
                               \cup {<<"N", "e", "a", "l", " ", "S", "h", "i",
                                    "p", "l", "e", "y", " ", "a", "t",
                                    " ">> \o total_score \o <<" ", "o", "v",
                                    "e", "r", "a", "l", "l", ".",
                                    " ">> \o today_score \o <<" ", "t", "o",
                                    "d", "a", "y", " ", "t", "h", "r", "o",
                                    "u", "g", "h", " ">> \o hole \o <<" ", "a",
                                    "t", " ", "t", "h", "e",
                                    " ">> \o tournament \o <<".">>}
                               \cup {tournament \o <<":", " ", "N", "e", "a",
                                    "l", " ", "S", "h", "i", "p", "l", "e",
                                    "y", " ", "t", "h", "r", "o", "u", "g",
                                    "h", " ">> \o hole \o <<" ", "h", "o", "l",
                                    "e", "s", ".",
                                    " ">> \o today_score \o <<" ", "t", "o",
                                    "d", "a", "y", ",",
                                    " ">> \o total_score \o <<" ", "t", "o",
                                    "t", "a", "l", ".">>}
                               \cup {<<"N", "e", "a", "l", ":",
                                    " ">> \o today_score \o <<" ", "t", "h",
                                    "r", "o", "u", "g", "h",
                                    " ">> \o hole \o <<" ", "t", "o", "d", "a",
                                    "y", " ", "a", "t", " ", "t", "h", "e",
                                    " ">> \o tournament \o <<".",
                                    " ">> \o total_score \o <<" ", "t", "o",
                                    "t", "a", "l", " ", "i", "n", " ",
                                    "R">> \o rd \o <<".">>}
    IN  {IF c # <<>> THEN base_tweet \o <<" ">> \o c ELSE base_tweet :
            base_tweet \in core_templates, c \in commentary}

\* generate_tee_time_tweet(tournament_info): the texts it may return
generate_tee_time_tweet(info) ==
    LET tournament   == info.tournament_name
        total_score  == info.total_score
        position     == info.position
        tee_time     == info.tee_time
        rd           == IntToStr(info.round)
        position_num == position_num_of(position)
        by_position  == IF position_num = None \/ position_num = Some(0) THEN {}
                        ELSE IF Get(position_num) <= 5 THEN
                          {<<"L", "e", "t", "'", "s", " ", "g", "e", "t",
                               " ", "i", "t", "!", " ", "~">>}
                          \cup {<<"T", "i", "m", "e", " ", "t", "o", " ", "m",
                               "a", "k", "e", " ", "a", " ", "m", "o", "v",
                               "e", "!", " ", "~">>}
                          \cup {<<"H", "e", "r", "e", " ", "w", "e", " ", "g",
                               "o", "!", " ", "~">>}
                          \cup {<<"G", "a", "m", "e", " ", "t", "i", "m", "e",
                               "!", " ", "~">>}
                        ELSE IF Get(position_num) <= 10 THEN
                          {<<"L", "e", "t", "'", "s", " ", "c", "l", "i",
                               "m", "b", "!", " ", "~">>}
                          \cup {<<"M", "o", "v", "i", "n", "g", " ", "d", "a",
                               "y", "!", " ", "~">>}
                          \cup {<<"T", "i", "m", "e", " ", "t", "o", " ", "w",
                               "o", "r", "k", "!", " ", "~">>}
                          \cup {<<"L", "e", "t", "'", "s", " ", "g", "o", "!",
                               " ", "~">>}
                        ELSE
                          {<<"L", "e", "t", "'", "s", " ", "m", "a", "k",
                               "e", " ", "s", "o", "m", "e", "t", "h", "i",
                               "n", "g", " ", "h", "a", "p", "p", "e", "n",
                               "!", " ", "~">>}
                          \cup {<<"T", "i", "m", "e", " ", "t", "o", " ", "g",
                               "r", "i", "n", "d", "!", " ", "~">>}
                          \cup {<<"H", "e", "r", "e", " ", "w", "e", " ", "g",
                               "o", "!", " ", "~">>}
                          \cup {<<"L", "e", "t", "'", "s", " ", "w", "o", "r",
                               "k", "!", " ", "~">>}
        by_round     == IF info.round = 4 THEN
                          {<<"F", "i", "n", "a", "l", " ", "r", "o", "u",
                               "n", "d", "!", " ", "~">>}
                          \cup {<<"S", "u", "n", "d", "a", "y", " ", "v", "i",
                               "b", "e", "s", "!", " ", "~", "~">>}
                          \cup {<<"F", "i", "n", "i", "s", "h", " ", "s", "t",
                               "r", "o", "n", "g", "!", " ", "~">>}
                        ELSE IF info.round = 3 THEN
                          {<<"M", "o", "v", "i", "n", "g", " ", "d", "a",
                               "y", "!", " ", "~">>}
                          \cup {<<"S", "a", "t", "u", "r", "d", "a", "y", " ",
                               "c", "h", "a", "r", "g", "e", "!", " ", "~">>}
                          \cup {<<"M", "a", "k", "e", " ", "a", " ", "m", "o",
                               "v", "e", "!", " ", "~">>}
                        ELSE IF info.round = 1 THEN
                          {<<"L", "e", "t", "'", "s", " ", "g", "o", "!",
                               " ", "~">>}
                          \cup {<<"H", "e", "r", "e", " ", "w", "e", " ", "g",
                               "o", "!", " ", "~">>}
                          \cup {<<"T", "o", "u", "r", "n", "a", "m", "e", "n",
                               "t", " ", "t", "i", "m", "e", "!", " ", "~">>}
                          \cup {<<"G", "a", "m", "e", " ", "o", "n", "!", " ",
                               "~">>}
                        ELSE {}
        flair        == by_position \cup by_round
        templates    == IF info.round = 1 THEN
                          {<<"N", "e", "a", "l", " ", "S", "h", "i", "p",
                               "l", "e", "y", " ", "t", "e", "e", "s", " ",
                               "o", "f", "f", " ", "a", "t",
                               " ">> \o tee_time \o <<" ", "f", "o", "r", " ",
                               "R", "o", "u", "n", "d", " ", "1", " ", "o",
                               "f", " ", "t", "h", "e",
                               " ">> \o tournament \o <<".">>}
                          \cup {<<"R", "o", "u", "n", "d", " ", "1", " ", "t",
                               "e", "e", " ", "t", "i", "m", "e", ":",
                               " ">> \o tee_time \o <<" ", "f", "o", "r", " ",
                               "N", "e", "a", "l", " ", "S", "h", "i", "p",
                               "l", "e", "y", " ", "a", "t", " ", "t", "h",
                               "e", " ">> \o tournament \o <<".">>}
                          \cup {<<"N", "e", "a", "l", " ", "S", "h", "i", "p",
                               "l", "e", "y", " ", "s", "t", "a", "r", "t",
                               "s", " ", "h", "i", "s", " ", "w", "e", "e",
                               "k", " ", "a", "t", " ">> \o tee_time \o <<" ",
                               "i", "n", " ", "R", "o", "u", "n", "d", " ",
                               "1", ".", " ">> \o tournament \o <<".">>}
                          \cup {tee_time \o <<" ", "t", "e", "e", " ", "t",
                               "i", "m", "e", " ", "f", "o", "r", " ", "N",
                               "e", "a", "l", " ", "S", "h", "i", "p", "l",
                               "e", "y", "!", " ", "R", "o", "u", "n", "d",
                               " ", "1", " ", "o", "f", " ", "t", "h", "e",
                               " ">> \o tournament \o <<".">>}
                          \cup {<<"~", " ">> \o tee_time \o <<" ", "s", "t",
                               "a", "r", "t", " ", "f", "o", "r", " ", "N",
                               "e", "a", "l", " ", "S", "h", "i", "p", "l",
                               "e", "y", " ", "a", "t", " ", "t", "h", "e",
                               " ">> \o tournament \o <<".", " ", "R", "o",
                               "u", "n", "d", " ", "1", "!">>}
                        ELSE IF position = in_the_field \/ position = <<>> THEN
                          {<<"N", "e", "a", "l", " ", "S", "h", "i", "p",
                               "l", "e", "y", " ", "t", "e", "e", "s", " ",
                               "o", "f", "f", " ", "a", "t",
                               " ">> \o tee_time \o <<" ", "f", "o", "r", " ",
                               "R", "o", "u", "n", "d", " ">> \o rd \o <<" ",
                               "o", "f", " ", "t", "h", "e",
                               " ">> \o tournament \o <<".", " ", "C", "u",
                               "r", "r", "e", "n", "t", "l", "y", " ", "a",
                               "t", " ">> \o total_score \o <<".">>}
                          \cup {<<"R", "o", "u", "n", "d",
                               " ">> \o rd \o <<" ", "t", "e", "e", " ", "t",
                               "i", "m", "e", ":", " ">> \o tee_time \o <<" ",
                               "f", "o", "r", " ", "N", "e", "a", "l", " ",
                               "S", "h", "i", "p", "l", "e", "y", " ",
                               "(">> \o total_score \o <<")", " ", "a", "t",
                               " ", "t", "h", "e",
                               " ">> \o tournament \o <<".">>}
                          \cup {<<"N", "e", "a", "l", " ", "S", "h", "i", "p",
                               "l", "e", "y", " ", "s", "t", "a", "r", "t",
                               "s", " ", "R", "o", "u", "n", "d",
                               " ">> \o rd \o <<" ", "a", "t",
                               " ">> \o tee_time \o <<".", " ", "S", "i", "t",
                               "s", " ", "a", "t",
                               " ">> \o total_score \o <<" ", "a", "t", " ",
                               "t", "h", "e", " ">> \o tournament \o <<".">>}
                          \cup {tee_time \o <<" ", "t", "e", "e", " ", "t",
                               "i", "m", "e", " ", "f", "o", "r", " ", "N",
                               "e", "a", "l", " ", "S", "h", "i", "p", "l",
                               "e", "y", " ", "i", "n", " ", "R", "o", "u",
                               "n", "d", " ">> \o rd \o <<" ",
                               "(">> \o total_score \o <<")", " ", "a", "t",
                               " ", "t", "h", "e",
                               " ">> \o tournament \o <<".">>}
                        ELSE
                          {<<"N", "e", "a", "l", " ", "S", "h", "i", "p",
                               "l", "e", "y", " ", "t", "e", "e", "s", " ",
                               "o", "f", "f", " ", "a", "t",
                               " ">> \o tee_time \o <<" ", "f", "o", "r", " ",
                               "R", "o", "u", "n", "d", " ">> \o rd \o <<" ",
                               "o", "f", " ", "t", "h", "e",
                               " ">> \o tournament \o <<".", " ", "C", "u",
                               "r", "r", "e", "n", "t", "l", "y",
                               " ">> \o position \o <<" ", "a", "t",
                               " ">> \o total_score \o <<".">>}
                          \cup {<<"R", "o", "u", "n", "d",
                               " ">> \o rd \o <<" ", "t", "e", "e", " ", "t",
                               "i", "m", "e", ":", " ">> \o tee_time \o <<" ",
                               "f", "o", "r", " ", "N", "e", "a", "l", " ",
                               "S", "h", "i", "p", "l", "e", "y", ".",
                               " ">> \o position \o <<" ",
                               "(">> \o total_score \o <<")", " ", "a", "t",
                               " ", "t", "h", "e",
                               " ">> \o tournament \o <<".">>}
                          \cup {<<"N", "e", "a", "l", " ", "S", "h", "i", "p",
                               "l", "e", "y", " ", "s", "t", "a", "r", "t",
                               "s", " ", "R", "o", "u", "n", "d",
                               " ">> \o rd \o <<" ", "a", "t",
                               " ">> \o tee_time \o <<".", " ", "S", "i", "t",
                               "s", " ">> \o position \o <<" ", "a", "t",
                               " ">> \o total_score \o <<" ", "h", "e", "a",
                               "d", "i", "n", "g", " ", "i", "n", "t", "o",
                               " ", "t", "o", "d", "a", "y", " ", "a", "t",
                               " ", "t", "h", "e",
                               " ">> \o tournament \o <<".">>}
                          \cup {tee_time \o <<" ", "t", "e", "e", " ", "t",
                               "i", "m", "e", " ", "f", "o", "r", " ", "N",
                               "e", "a", "l", " ", "S", "h", "i", "p", "l",
                               "e", "y", " ", "i", "n", " ", "R", "o", "u",
                               "n", "d", " ">> \o rd \o <<".", " ", "C", "u",
                               "r", "r", "e", "n", "t", "l", "y",
                               " ">> \o position \o <<",",
                               " ">> \o total_score \o <<" ", "a", "t", " ",
                               "t", "h", "e", " ">> \o tournament \o <<".">>}
                          \cup {<<"N", "e", "a", "l", " ", "S", "h", "i", "p",
                               "l", "e", "y", " ">> \o position \o <<" ", "a",
                               "t", " ">> \o total_score \o <<" ", "g", "o",
                               "i", "n", "g", " ", "i", "n", "t", "o", " ",
                               "R", "o", "u", "n", "d", " ">> \o rd \o <<".",
                               " ", "T", "e", "e", "s", " ", "o", "f", "f",
                               " ", "a", "t", " ">> \o tee_time \o <<" ", "a",
                               "t", " ", "t", "h", "e",
                               " ">> \o tournament \o <<".">>}
                          \cup {<<"~", " ">> \o tee_time \o <<" ", "s", "t",
                               "a", "r", "t", " ", "f", "o", "r", " ", "N",
                               "e", "a", "l", " ", "S", "h", "i", "p", "l",
                               "e", "y", "!", " ", "R", "o", "u", "n", "d",
                               " ">> \o rd \o <<" ", "a", "t", " ", "t", "h",
                               "e", " ">> \o tournament \o <<".",
                               " ">> \o position \o <<",",
                               " ">> \o total_score \o <<".">>}
    IN  IF flair = {} THEN templates
        ELSE {base_tweet \o <<" ">> \o f : base_tweet \in templates, f \in flair}

\* generate_missed_cut_tweet(tournament_info): the texts it may return
generate_missed_cut_tweet(info) ==
    LET tournament  == info.tournament_name
        total_score == info.total_score
    IN  IF total_score # <<>> /\ total_score # <<"E">> THEN
           {<<"N", "e", "a", "l", " ", "S", "h", "i", "p", "l", "e", "y",
                " ", "m", "i", "s", "s", "e", "d", " ", "t", "h", "e", " ",
                "c", "u", "t", " ", "a", "t", " ", "t", "h", "e",
                " ">> \o tournament \o <<".", " ", "F", "i", "n", "i", "s",
                "h", "e", "d", " ", "a", "t", " ">> \o total_score \o <<".",
                " ", "O", "n", " ", "t", "o", " ", "t", "h", "e", " ", "n",
                "e", "x", "t", " ", "o", "n", "e", "!", " ", "~">>}
           \cup {<<"N", "o", " ", "w", "e", "e", "k", "e", "n", "d", " ", "a",
                "t", " ", "t", "h", "e", " ">> \o tournament \o <<" ", "f",
                "o", "r", " ", "N", "e", "a", "l", " ", "S", "h", "i", "p",
                "l", "e", "y", " ", "a", "f", "t", "e", "r", " ", "f", "i",
                "n", "i", "s", "h", "i", "n", "g", " ", "a", "t",
                " ">> \o total_score \o <<".", " ", "W", "e", "'", "l", "l",
                " ", "g", "e", "t", " ", "'", "e", "m", " ", "n", "e", "x",
                "t", " ", "w", "e", "e", "k", "!", " ", "~">>}
           \cup {<<"N", "e", "a", "l", " ", "S", "h", "i", "p", "l", "e", "y",
                "'", "s", " ">> \o tournament \o <<" ", "e", "n", "d", "s",
                " ", "a", "f", "t", "e", "r", " ", "m", "i", "s", "s", "i",
                "n", "g", " ", "t", "h", "e", " ", "c", "u", "t", " ", "a",
                "t", " ">> \o total_score \o <<".", " ", "R", "e", "g", "r",
                "o", "u", "p", " ", "a", "n", "d", " ", "r", "e", "l", "o",
                "a", "d", "!", " ", "~">>}
           \cup {<<"C", "u", "t", " ", "l", "i", "n", "e", " ", "c", "l", "a",
                "i", "m", "e", "d", " ", "N", "e", "a", "l", " ", "S", "h",
                "i", "p", "l", "e", "y", " ", "a", "t", " ", "t", "h", "e",
                " ">> \o tournament \o <<" ", "(">> \o total_score \o <<")",
                ".", " ", "B", "a", "c", "k", " ", "t", "o", " ", "w", "o",
                "r", "k", "!", " ", "~">>}
           \cup {tournament \o <<" ", "e", "n", "d", "s", " ", "e", "a", "r",
                "l", "y", " ", "f", "o", "r", " ", "N", "e", "a", "l", " ",
                "S", "h", "i", "p", "l", "e", "y", " ",
                "(">> \o total_score \o <<")", ".", " ", "N", "e", "x", "t",
                " ", "w", "e", "e", "k", " ", "i", "s", " ", "a", " ", "n",
                "e", "w", " ", "o", "p", "p", "o", "r", "t", "u", "n", "i",
                "t", "y", "!", " ", "~">>}
        ELSE
           {<<"N", "e", "a", "l", " ", "S", "h", "i", "p", "l", "e", "y",
                " ", "m", "i", "s", "s", "e", "d", " ", "t", "h", "e", " ",
                "c", "u", "t", " ", "a", "t", " ", "t", "h", "e",
                " ">> \o tournament \o <<".", " ", "O", "n", " ", "t", "o",
                " ", "t", "h", "e", " ", "n", "e", "x", "t", "!", " ", "~">>}
           \cup {<<"N", "o", " ", "w", "e", "e", "k", "e", "n", "d", " ", "g",
                "o", "l", "f", " ", "f", "o", "r", " ", "N", "e", "a", "l",
                " ", "S", "h", "i", "p", "l", "e", "y", " ", "a", "t", " ",
                "t", "h", "e", " ">> \o tournament \o <<".", " ", "W", "e",
                "'", "l", "l", " ", "b", "e", " ", "b", "a", "c", "k", "!",
                " ", "~">>}
           \cup {<<"N", "e", "a", "l", " ", "S", "h", "i", "p", "l", "e", "y",
                "'", "s", " ">> \o tournament \o <<" ", "e", "n", "d", "s",
                " ", "a", "f", "t", "e", "r", " ", "m", "i", "s", "s", "i",
                "n", "g", " ", "t", "h", "e", " ", "c", "u", "t", ".", " ",
                "R", "e", "s", "e", "t", " ", "a", "n", "d", " ", "r", "e",
                "l", "o", "a", "d", "!", " ", "~">>}
           \cup {<<"C", "u", "t", " ", "l", "i", "n", "e", " ", "g", "o", "t",
                " ", "u", "s", " ", "a", "t", " ", "t", "h", "e",
                " ">> \o tournament \o <<".", " ", "N", "e", "x", "t", " ",
                "o", "n", "e", " ", "u", "p", "!", " ", "~">>}


\* thru = str(thru_raw) if thru_raw else ''
thru_of(thru_raw) ==
    IF thru_raw.k = "int"
    THEN IF thru_raw.n = 0 THEN <<>> ELSE IntToStr(thru_raw.n)
    ELSE thru_raw.s

\* get_golfer_update_from_espn(tournament_name): the pairs [tweet, error] it may
\* return, error being whether the second component is a message
get_golfer_update_from_espn(tournament, entry, day_of_week) ==
    IF entry = None THEN {[tweet |-> None, error |-> TRUE]}
    ELSE
    LET pl          == Get(entry)
        position    == pl.position
        total_score == pl.total_score
        today_score == pl.today_score
        thru        == thru_of(pl.thru)
        tee_time    == pl.tee_time
        rd          == IntToStr(pl.period)
        shown       == IF position # <<>> THEN position ELSE in_the_field
        texts ==
            IF thru # <<>> /\ thru # <<"F">> /\ IsDigitStr(thru)
            THEN generate_active_play_tweet(
                     [tournament_name |-> tournament, today_score |-> today_score,
                      total_score |-> total_score, position |-> shown,
                      hole |-> thru, round |-> pl.period])
            ELSE IF tee_time # <<>> /\ AnyDigit(tee_time) /\ thru # <<"F">>
            THEN generate_tee_time_tweet(
                     [tournament_name |-> tournament,
                      total_score |-> IF total_score # <<>> /\ total_score # <<"E">>
                                      THEN total_score ELSE <<"E">>,
                      position |-> shown, tee_time |-> tee_time, round |-> pl.period])
            ELSE IF thru = <<"F">>
            THEN {IF c # <<>> THEN base_tweet \o <<" ">> \o c ELSE base_tweet :
                     base_tweet \in
                         {<<"N", "e", "a", "l", " ", "S", "h", "i", "p", "l", "e", "y", " ",
            "f", "i", "n", "i", "s", "h", "e", "s", " ", "R", "o", "u", "n",
            "d", " ">> \o rd \o <<" ", "a", "t", " ">> \o today_score \o <<" ",
            "(">> \o total_score \o <<" ", "o", "v", "e", "r", "a", "l", "l",
            ")", ".", " ">> \o position \o <<" ", "a", "t", " ", "t", "h", "e",
            " ">> \o tournament \o <<".">>},
                     c \in get_fun_commentary(position, total_score, today_score,
                                              pl.period)}
            ELSE IF day_of_week \in {5, 6}
                    /\ (position = <<>> \/ tee_time = <<>> \/ ~AnyDigit(tee_time))
            THEN generate_missed_cut_tweet(
                     [tournament_name |-> tournament, total_score |-> total_score])
            ELSE {}
    IN  IF texts = {} THEN {[tweet |-> None, error |-> TRUE]}
        ELSE {[tweet |-> Some(t), error |-> FALSE] : t \in texts}

\* the status file: missing, or the JSON object {'last_status': ...} with the text of
\* its value
NoStatusFile == [kind |-> "missing", doc |-> [last_status |-> <<"null">>]]

\* load_last_status()
load_last_status(f) ==
    IF f.kind = "missing" \/ f.doc.last_status = <<"null">> THEN None
    ELSE Some(SubSeq(f.doc.last_status, 2, Len(f.doc.last_status) - 1))

\* save_last_status(status)
save_last_status(status) ==
    [kind |-> "object", doc |-> [last_status |-> <<"\"">> \o status \o <<"\"">>]]

\* the script's hours: 6 <= hour <= 22
golf_hours(h) == 6 <= h /\ h <= 22

\* the event names get_active_pga_event() may give to the script (None: no event)
ActiveEvents == {None, Some(<<"O", "p", "e", "n">>)}

\* the golfer's entry: at hole 6 of round 1 with no position shown; done with round
\* 1 at T5; before round 2 with a tee time; with neither holes nor a tee time
StatusEntry(pos, total, th, rd, tee) ==
    Some([position |-> pos, total_score |-> total, today_score |-> <<"E">>,
          thru |-> th, period |-> rd, tee_time |-> tee])

StatusEntries ==
    {StatusEntry(<<>>, <<"E">>, ThruInt(6), 1, <<>>),
     StatusEntry(<<"T", "5">>, <<"E">>, ThruText(<<"F">>), 1, <<>>),
     StatusEntry(<<>>, <<"-", "3">>, ThruText(<<>>), 2,
                 <<"9", ":", "1", "0", " ", "A", "M">>),
     StatusEntry(<<>>, <<"-", "3">>, ThruText(<<>>), 1, <<>>)}

\* an hour outside the script's hours and one inside
ScriptHours == {5, 14}

\* Thursday and Saturday
StatusDays == {3, 5}

\* what client.create_tweet does: it returns, raises tweepy.TweepyException, or
\* raises something else, which ends the script
CreateTweetOutcomes == {"returned", "TweepyException", "Exception"}

\* one run of the script; args is the status file, result what the run before did:
\* [data, unchanged, called, posted, saved, same, before], the leaderboard data it
\* read (none when it read nothing), whether the text equalled the stored status,
\* whether create_tweet was called and returned, whether the file was written,
\* whether the run before read the same data, and whether that run posted
ScriptRun ==
    \E h \in ScriptHours, event \in ActiveEvents, entry \in StatusEntries \cup {None},
       day \in StatusDays, answer \in CreateTweetOutcomes :
       LET last_known_status == load_last_status(args)
           reads  == golf_hours(h) /\ event # None
           data   == IF reads THEN Some(<<Get(event), entry, day>>) ELSE None
           same   == result # None /\ data # None /\ Get(result).data = data
           before == result # None /\ Get(result).posted
           idle   == [data |-> data, unchanged |-> FALSE, called |-> FALSE,
                      posted |-> FALSE, saved |-> FALSE, same |-> same, before |-> before]
       IN  IF ~reads
           THEN args' = args /\ result' = Some(idle)
           ELSE \E u \in get_golfer_update_from_espn(Get(event), entry, day) :
                   IF u.error \/ u.tweet = None
                   THEN args' = args /\ result' = Some(idle)
                   ELSE IF u.tweet = last_known_status
                   THEN /\ args' = args
                        /\ result' = Some([idle EXCEPT !.unchanged = TRUE])
                   ELSE /\ args' = IF answer = "returned"
                                   THEN save_last_status(Get(u.tweet)) ELSE args
                        /\ result' = Some([idle EXCEPT !.called = TRUE,
                                                       !.posted = (answer = "returned"),
                                                       !.saved = (answer = "returned")])

InitScript ==
    /\ InitMain
    /\ args = NoStatusFile
    /\ result = None

CallScript ==
    /\ ScriptRun
    /\ UNCHANGED <<file, outcome, loaded, state, player, posts, new_state, tracked,
                   changed_from, hour, log, history>>

SpecScript == InitScript /\ [][CallScript]_vars

(* Runs in sequence over a feed that stops changing.  args is None while   *)
(* the feed changes and then holds the Snapshot every later run gets, with *)
(* whether the feed stopped before the first run.  The scheduler starts    *)
(* run after run, each exits, and of the runs over the settled feed there  *)
(* are always later ones in which the transport delivers every post.       *)
QuietSnapshots ==
    {p \in SnapshotsOver(EventNames,
                         {ThruText(<<>>), ThruText(<<"F">>), ThruInt(13)},
                         {<<"-", "2">>},
                         {<<"9", ":", "1", "0", " ", "A", "M">>, <<"C", "U", "T">>}) :
        p.round = 1}

Delivering == {[k \in 1..2 |-> TRUE]}

FeedChangingRun ==
    /\ args = None
    /\ MainRunRecorded(HourSamples, QuietSnapshots)

FeedSettles ==
    /\ outcome = "idle"
    /\ args = None
    /\ \E p \in QuietSnapshots : args' = Some([p |-> p, fresh |-> ~file.exists])
    /\ UNCHANGED <<file, outcome, loaded, state, player, posts, new_state, tracked,
                   changed_from, hour, log, history, result>>

SettledRunDelivered ==
    /\ args # None
    /\ RunEngineWith(HourSamples, {Get(args).p}, Delivering)
    /\ history' = Recorded(history, Get(player'), posts', Get(new_state'))
    /\ UNCHANGED <<args, result>>

SettledRunUndelivered ==
    /\ args # None
    /\ RunEngineWith(HourSamples, {Get(args).p}, PostOutcomes \ Delivering)
    /\ history' = Recorded(history, Get(player'), posts', Get(new_state'))
    /\ UNCHANGED <<args, result>>

NextQuiet ==
    \/ MainOutsideHours(HourSamples)
    \/ MainNoEvent(HourSamples)
    \/ MainNoPlayer(HourSamples, EventNames)
    \/ FeedChangingRun
    \/ FeedSettles
    \/ SettledRunDelivered
    \/ SettledRunUndelivered
    \/ MainExit

SpecQuiet ==
    /\ Init
    /\ [][NextQuiet]_vars
    /\ WF_vars(MainExit)
    /\ SF_vars(SettledRunDelivered)

\* post_tweet on its own, for the messages of every category: the tournament name is
\* as long as the feed makes it, here up to MaxName characters
MaxName == 210

NameLengths == {0, 20} \cup (MaxName - 80)..MaxName

PostPlayers ==
    {[tournament  |-> [i \in 1..len |-> "n"],
      round       |-> rd,
      thru        |-> Some(6),
      today_score |-> Some(-2),
      total_score |-> Some(-1),
      position    |-> pos,
      tee_time    |-> <<"9", ":", "1", "0", " ", "A", "M">>] :
        len \in NameLengths, rd \in 1..2, pos \in {<<>>, <<"T", "5">>}}

\* the calls of decide_and_tweet that render a message
Rendered(cat, event, p) ==
    IF cat = "missed_cut" THEN tweet_missed_cut(p)
    ELSE IF cat = "tee_time" THEN tweet_tee_time(p)
    ELSE IF cat = "round_finish" THEN tweet_round_finish(p)
    ELSE IF cat = "score_alert" THEN tweet_score_alert(p, event)
    ELSE tweet_milestone_update(p)

PostMessages ==
    {[cat |-> c, event |-> ""] : c \in {"missed_cut", "tee_time", "round_finish", "milestone"}}
        \cup {[cat |-> "score_alert", event |-> e] : e \in {"eagle", "birdie_run", "double+"}}

\* TEST_MODE; no client; delivered at once; delivered, or not, after a new login;
\* no client for the new login
Transports ==
    {[test_mode |-> TRUE,  clients |-> <<TRUE, TRUE>>,   answers |-> <<TRUE, TRUE>>],
     [test_mode |-> FALSE, clients |-> <<FALSE, FALSE>>, answers |-> <<TRUE, TRUE>>],
     [test_mode |-> FALSE, clients |-> <<TRUE, TRUE>>,   answers |-> <<TRUE, TRUE>>],
     [test_mode |-> FALSE, clients |-> <<TRUE, TRUE>>,   answers |-> <<FALSE, TRUE>>],
     [test_mode |-> FALSE, clients |-> <<TRUE, TRUE>>,   answers |-> <<FALSE, FALSE>>],
     [test_mode |-> FALSE, clients |-> <<TRUE, FALSE>>,  answers |-> <<FALSE, TRUE>>]}

InitPost ==
    /\ InitMain
    /\ args \in {Some([m |-> m, p |-> p, via |-> tr]) :
                    m \in PostMessages, p \in PostPlayers, tr \in Transports}
    /\ result = None

\* post_tweet(tweet_...(p)): the message rendered and posted
CallPostTweet ==
    /\ args # None
    /\ result = None
    /\ \E text \in Rendered(Get(args).m.cat, Get(args).m.event, Get(args).p) :
          \E r \in {post_tweet_text(text, Get(args).via.test_mode,
                                     Get(args).via.clients, Get(args).via.answers)} :
              result' = Some([text |-> text, ok |-> r.ok, sent |-> r.sent])
    /\ UNCHANGED <<file, outcome, loaded, state, player, posts, new_state, tracked,
                   changed_from, hour, log, history, args>>

SpecPost == InitPost /\ [][CallPostTweet]_vars

\* _post_async on its own: every session, every outcome of the logins and of the
\* create_tweet calls, two texts
Sessions == [twikit : BOOLEAN, cookies : BOOLEAN, loadable : BOOLEAN, secrets : BOOLEAN]

SessionTexts == {<<"a">>, <<"a", "b">>}

InitSession ==
    /\ InitMain
    /\ args \in {Some([text |-> t, session |-> e, login_oks |-> l, answers |-> a]) :
                    t \in SessionTexts, e \in Sessions,
                    l \in [1..2 -> BOOLEAN], a \in [1..2 -> BOOLEAN]}
    /\ result = None

CallPostAsync ==
    /\ args # None
    /\ result = None
    /\ result' = Some(post_async_in(Get(args).text, Get(args).session,
                                     Get(args).login_oks, Get(args).answers))
    /\ UNCHANGED <<file, outcome, loaded, state, player, posts, new_state, tracked,
                   changed_from, hour, log, history, args>>

SpecSession == InitSession /\ [][CallPostAsync]_vars

\* parse_score and fmt on their own: the scores up to MaxScore either way, with
\* their signed texts, and every text of up to three characters of ScoreChars
MaxScore == 12

ScoreChars == {"E", "v", "e", "n", "+", "-", "0", "1", "2", "7", " ", "x"}

ScoreTexts ==
    UNION {[1..len -> ScoreChars] : len \in 0..3}
        \cup {<<"E", "v", "e", "n">>}
        \cup {<<sign>> \o NatToStr(n) : sign \in {"+", "-"}, n \in 0..MaxScore}

ScoreCalls ==
    {[f |-> "parse_score", raw |-> r, score |-> None] :
        r \in {None} \cup {Some(t) : t \in ScoreTexts}}
    \cup {[f |-> "fmt", raw |-> None, score |-> sc] :
        sc \in {None} \cup {Some(n) : n \in (0 - MaxScore)..MaxScore}}

InitScores ==
    /\ InitMain
    /\ args \in {Some(c) : c \in ScoreCalls}
    /\ result = None

\* parse_score(raw), and fmt of what it returned
CallParseScore ==
    /\ args # None
    /\ result = None
    /\ Get(args).f = "parse_score"
    /\ result' = Some([parsed |-> parse_score(Get(args).raw),
                       text   |-> fmt(parse_score(Get(args).raw))])
    /\ UNCHANGED <<file, outcome, loaded, state, player, posts, new_state, tracked,
                   changed_from, hour, log, history, args>>

\* fmt(score), and parse_score of what it returned
CallFmt ==
    /\ args # None
    /\ result = None
    /\ Get(args).f = "fmt"
    /\ result' = Some([parsed |-> parse_score(Some(fmt(Get(args).score))),
                       text   |-> fmt(Get(args).score)])
    /\ UNCHANGED <<file, outcome, loaded, state, player, posts, new_state, tracked,
                   changed_from, hour, log, history, args>>

NextScores == CallParseScore \/ CallFmt

SpecScores == InitScores /\ [][NextScores]_vars

\* get_player_data on its own, over a wider feed: thru absent, a JSON number up to
\* MaxHole or a text of up to two characters; the position, the status type name and
\* the status display value with and without the cut tokens
MaxHole == 19

ThruAbsent == [k |-> "absent", s |-> <<>>, n |-> 0]

ThruChars == {"F", "f", "0", "1", "8", "9", " ", "x", "+"}

BuilderThru ==
    {ThruAbsent} \cup {ThruInt(n) : n \in 0..MaxHole}
        \cup {ThruText(t) : t \in UNION {[1..len -> ThruChars] : len \in 0..2}}

BuilderPosition ==
    {<<>>, <<"T", "5">>, <<"C", "U", "T">>, <<"c", "u", "t">>, <<"M", "C">>,
     <<"W", "D">>, <<"D", "Q">>, <<"R", "T", "D">>, <<"M", "D", "F">>,
     <<"m", "d", "f">>, <<" ", "M", "C">>, <<"C", "U", "T", "S">>}

BuilderStatusType ==
    {<<>>, <<"S", "T", "A", "T", "U", "S", "_", "C", "U", "T">>,
     <<"s", "t", "a", "t", "u", "s", "_", "c", "u", "t">>,
     <<"S", "T", "A", "T", "U", "S", "_", "C", "U">>}

BuilderDisplay ==
    {<<>>, <<"9", ":", "1", "0", " ", "A", "M">>, <<"C", "U", "T">>,
     <<" ", "c", "u", "t", " ">>, <<"M", "C", " ">>, <<"C", "U", "T", " ", "1">>}

BuilderCompetitors ==
    {[score        |-> Some(<<"-", "1">>),
      position     |-> pos,
      thru         |-> th,
      period       |-> 1,
      displayValue |-> tee,
      type_name    |-> ty,
      linescores   |-> Linescores(1, Some(<<"E">>))] :
        pos \in BuilderPosition, th \in BuilderThru,
        tee \in BuilderDisplay, ty \in BuilderStatusType}

InitBuilder ==
    /\ InitMain
    /\ args \in {Some(pl) : pl \in BuilderCompetitors}
    /\ result = None

CallGetPlayerData ==
    /\ args # None
    /\ result = None
    /\ result' = Some(get_player_data("A", Get(args)))
    /\ UNCHANGED <<file, outcome, loaded, state, player, posts, new_state, tracked,
                   changed_from, hour, log, history, args>>

SpecBuilder == InitBuilder /\ [][CallGetPlayerData]_vars

\* parse_position_num on its own: the ranks up to MaxRank with a tie marker or an
\* ordinal suffix, and every text of up to three characters of PositionChars
MaxRank == 23

PositionChars == {"T", "t", "s", "n", "d", "r", "h", "1", "2", "0", "-", " ", "x"}

OrdinalSuffixes == {<<"s", "t">>, <<"n", "d">>, <<"r", "d">>, <<"t", "h">>}

PositionTexts ==
    UNION {[1..len -> PositionChars] : len \in 0..3}
        \cup {<<"T">> \o NatToStr(n) : n \in 1..MaxRank}
        \cup {NatToStr(n) \o x : n \in 1..MaxRank, x \in OrdinalSuffixes}

InitPosition ==
    /\ InitMain
    /\ args \in {None} \cup {Some(Some(t)) : t \in PositionTexts}
    /\ result = None

\* args = None is the call parse_position_num(None)
CallParsePositionNum ==
    /\ result = None
    /\ result' = Some(parse_position_num(IF args = None THEN None ELSE Get(args)))
    /\ UNCHANGED <<file, outcome, loaded, state, player, posts, new_state, tracked,
                   changed_from, hour, log, history, args>>

SpecPosition == InitPosition /\ [][CallParsePositionNum]_vars

\* load_state and save_state on their own.  The records a file may hold: any subset
\* of some default keys and of a key the defaults do not have.
SavedKeys == {"tournament", "round", "today_score", "missed_cut", "position", "note"}

SavedRecords ==
    {[k \in K |-> full[k]] :
        K \in SUBSET SavedKeys,
        full \in [tournament  : {None, Some("A")},
                  round       : {None, Some(2)},
                  today_score : {None, Some(0), Some(-3)},
                  missed_cut  : BOOLEAN,
                  position    : {None, Some(<<"T", "5">>)},
                  note        : {Some(17)}]}

\* the file, with the record it was written from
StateFiles ==
    {[kind |-> k, doc |-> <<>>, of |-> <<>>] : k \in {"missing", "invalid"}}
        \cup {[kind |-> "object", doc |-> json_dump(r), of |-> r] : r \in SavedRecords}

InitStateFile ==
    /\ InitMain
    /\ args \in {Some(f) : f \in StateFiles}
    /\ result = None

CallLoadState ==
    /\ args # None
    /\ result = None
    /\ result' = Some([call |-> "load_state", value |-> load_state_text(Get(args))])
    /\ UNCHANGED <<file, outcome, loaded, state, player, posts, new_state, tracked,
                   changed_from, hour, log, history, args>>

CallSaveState ==
    /\ args # None
    /\ result # None
    /\ Get(result).call = "load_state"
    /\ \E f \in {save_state_text(Get(result).value)} :
          args' = Some([kind |-> f.kind, doc |-> f.doc, of |-> Get(result).value])
    /\ result' = Some([call |-> "save_state", value |-> Get(result).value])
    /\ UNCHANGED <<file, outcome, loaded, state, player, posts, new_state, tracked,
                   changed_from, hour, log, history>>

CallLoadStateAgain ==
    /\ args # None
    /\ result # None
    /\ Get(result).call = "save_state"
    /\ result' = Some([call |-> "load_state_again", value |-> load_state_text(Get(args))])
    /\ UNCHANGED <<file, outcome, loaded, state, player, posts, new_state, tracked,
                   changed_from, hour, log, history, args>>

NextStateFile == CallLoadState \/ CallSaveState \/ CallLoadStateAgain

SpecStateFile == InitStateFile /\ [][NextStateFile]_vars

\* fetch on its own, over every sequence of attempt outcomes
FetchAnswers == [1..RETRIES -> {None} \cup {Some(d) : d \in FeedDocuments({"A"})}]

InitFetch ==
    /\ InitMain
    /\ args \in {Some(answers) : answers \in FetchAnswers}
    /\ result = None

CallFetch ==
    /\ args # None
    /\ result = None
    /\ result' = Some(FetchLoop(Get(args), 0, <<>>))
    /\ UNCHANGED <<file, outcome, loaded, state, player, posts, new_state, tracked,
                   changed_from, hour, log, history, args>>

SpecFetch == InitFetch /\ [][CallFetch]_vars

---------------------------------------------------------------------------
(* The last run, as the claims speak of it.                                *)

\* the run reached the decision engine and saved its result
Ran == outcome = "saved"

AllOk == [k \in 1..2 |-> TRUE]

Attempted(cat) == \E k \in 1..Len(posts) : posts[k].cat = cat

Delivered(cat) == \E k \in 1..Len(posts) : posts[k].cat = cat /\ posts[k].ok

Failed(cat) == \E k \in 1..Len(posts) : posts[k].cat = cat /\ ~posts[k].ok

Categories == {posts[k].cat : k \in 1..Len(posts)}

\* what a following run over the same snapshot does when every post succeeds
Rerun == decide_and_tweet(Get(player), Get(new_state), AllOk)

RerunCategories == {Rerun.posts[k].cat : k \in 1..Len(Rerun.posts)}

Observed(s) == <<s.tournament, s.round, s.thru, s.today_score, s.total_score, s.position>>

ObservedOf(p) ==
    <<Some(p.tournament), Some(p.round), p.thru, p.today_score, p.total_score, Some(p.position)>>

Markers(s) ==
    <<s.missed_cut, s.tee_time_tweeted_round, s.round_finish_tweeted,
      s.last_hole_milestone, s.last_alert_hole>>

---------------------------------------------------------------------------
(* C1.  In a single run at most one message is delivered, whatever the     *)
(* prior state, the snapshot and the transport's answers: post_tweet       *)
(* returns success at most once per run.                                   *)
C1_AtMostOneDelivered ==
    Ran => Cardinality({k \in 1..Len(posts) : posts[k].ok}) <= 1

\* a run that delivered a score alert at a hole where a milestone was due, and
\* advanced the milestone marker without a second message
C1_Witness ==
    /\ Ran
    /\ Delivered("score_alert")
    /\ Get(new_state).last_hole_milestone # Get(state).last_hole_milestone
    /\ Len(posts) = 1

(* C5.  For a snapshot with missed_cut set, whatever its other fields, the *)
(* run attempts no tee-time, round-finish, score-alert or milestone        *)
(* message, attempts the missed-cut message exactly when the state's       *)
(* missed_cut is not yet true, and returns the prior state except possibly *)
(* for missed_cut.                                                         *)
C5_MissedCutPreempts ==
    (Ran /\ Get(player).missed_cut) =>
        /\ Categories \subseteq {"missed_cut"}
        /\ Len(posts) <= 1
        /\ Attempted("missed_cut") <=> ~Get(state).missed_cut
        /\ Get(new_state) = [Get(state) EXCEPT !.missed_cut = Get(new_state).missed_cut]

\* a missed-cut snapshot that is also live, in a run that delivered the message
C5_Witness ==
    /\ Ran
    /\ Get(player).missed_cut
    /\ Get(player).is_live
    /\ Delivered("missed_cut")
    /\ Get(new_state).missed_cut

(* C2.  Idempotence: after a run in which every post succeeded, a second   *)
(* run over the same snapshot and the returned state attempts no message   *)
(* and returns the same state.                                             *)
C2_Idempotent ==
    (Ran /\ \A k \in 1..Len(posts) : posts[k].ok) =>
        /\ Rerun.posts = <<>>
        /\ Rerun.s = Get(new_state)

(* C3.  Whatever the category, a message whose post failed is attempted    *)
(* again by the next run over the same snapshot.                           *)
C3_FailedPostRetried ==
    Ran => \A k \in 1..Len(posts) : ~posts[k].ok => posts[k].cat \in RerunCategories

(* C4.  The markers missed_cut, tee_time_tweeted_round,                    *)
(* round_finish_tweeted and last_alert_hole take their announced value     *)
(* only in a run whose post of that category succeeded, and a failed post  *)
(* leaves the category's marker at its value in the prior state.           *)
C4_MarkerOnlyOnDelivery ==
    Ran =>
        LET p  == Get(player)
            s0 == Get(state)
            s1 == Get(new_state)
        IN  /\ (s1.missed_cut /\ ~s0.missed_cut) => Delivered("missed_cut")
            /\ (s1.tee_time_tweeted_round = Some(p.round)
                  /\ s0.tee_time_tweeted_round # Some(p.round)) => Delivered("tee_time")
            /\ (s1.round_finish_tweeted = Some(p.round)
                  /\ s0.round_finish_tweeted # Some(p.round)) => Delivered("round_finish")
            /\ (p.thru # None /\ s1.last_alert_hole = p.thru
                  /\ s0.last_alert_hole # p.thru) => Delivered("score_alert")
            /\ Failed("missed_cut") => s1.missed_cut = s0.missed_cut
            /\ Failed("tee_time") => s1.tee_time_tweeted_round = s0.tee_time_tweeted_round
            /\ Failed("round_finish") => s1.round_finish_tweeted = s0.round_finish_tweeted
            /\ Failed("score_alert") => s1.last_alert_hole = s0.last_alert_hole

(* C6.  When the event of a run differs from the event of the previous run *)
(* that reached the engine, the state handed to the engine carries no      *)
(* marker of the earlier tournament.                                       *)
C6_NoMarkerAcrossTournaments ==
    (Ran /\ changed_from # None) => Markers(Get(state)) = Markers(DEFAULT_STATE)

(* C7.  When the loaded state's tournament is not None and differs from    *)
(* the event name, the engine is invoked with the default state, and the   *)
(* saved state does not carry the earlier tournament.                      *)
C7_ResetOnOtherTournament ==
    (Ran /\ Get(loaded).tournament # None
         /\ Get(loaded).tournament # Some(Get(player).tournament)) =>
        /\ Get(state) = DEFAULT_STATE
        /\ Get(new_state).tournament # Get(loaded).tournament

---------------------------------------------------------------------------
\* the state's round is set and the snapshot's round is greater
RoundAdvanced == Get(state).round # None /\ Get(player).round > Get(Get(state).round)

\* the smallest milestone the snapshot's hole has reached, if any
FirstMilestoneReached ==
    LET reached == {m \in UPDATE_MILESTONES : Get(Get(player).thru) >= m}
    IN  IF reached = {} THEN None ELSE Some(CHOOSE m \in reached : \A o \in reached : m <= o)

(* C8 as stated.  In every run where the round advanced and the snapshot   *)
(* is not tee-time-pending, the returned state has last_hole_milestone and *)
(* last_alert_hole None, and missed_cut and tee_time_tweeted_round as in   *)
(* the prior state.                                                        *)
C8_Original ==
    (Ran /\ RoundAdvanced /\ ~TeeTimePending(Get(player))) =>
        /\ Get(new_state).last_hole_milestone = None
        /\ Get(new_state).last_alert_hole = None
        /\ Get(new_state).missed_cut = Get(state).missed_cut
        /\ Get(new_state).tee_time_tweeted_round = Get(state).tee_time_tweeted_round

(* C8 as amended.  In every run where the round advanced and the snapshot  *)
(* is neither missed-cut nor tee-time-pending, the earlier round's         *)
(* last_hole_milestone and last_alert_hole are discarded: the returned     *)
(* last_alert_hole is the snapshot's hole if a score alert was delivered   *)
(* in this run and None otherwise; the returned last_hole_milestone is 18  *)
(* if the round-finish message was delivered, the smallest milestone       *)
(* reached if a milestone message or a score alert was delivered in live   *)
(* play at or past it, and None otherwise; missed_cut and                  *)
(* tee_time_tweeted_round are as in the prior state.                       *)
C8_RoundAdvanceReset ==
    (Ran /\ RoundAdvanced /\ ~TeeTimePending(Get(player)) /\ ~Get(player).missed_cut) =>
        LET p  == Get(player)
            s1 == Get(new_state)
        IN  /\ s1.last_alert_hole =
                  IF Delivered("score_alert") THEN p.thru ELSE None
            /\ s1.last_hole_milestone =
                  IF Delivered("round_finish") THEN Some(18)
                  ELSE IF p.is_live /\ (Delivered("milestone") \/ Delivered("score_alert"))
                       THEN FirstMilestoneReached
                       ELSE None
            /\ s1.missed_cut = Get(state).missed_cut
            /\ s1.tee_time_tweeted_round = Get(state).tee_time_tweeted_round

\* a round advance that discarded both markers of the earlier round
C8_Witness ==
    /\ Ran
    /\ RoundAdvanced
    /\ ~TeeTimePending(Get(player))
    /\ ~Get(player).missed_cut
    /\ Get(state).last_hole_milestone # None
    /\ Get(state).last_alert_hole # None
    /\ Get(state).tee_time_tweeted_round # None
    /\ Get(new_state).last_hole_milestone = None
    /\ Get(new_state).last_alert_hole = None

(* C9 as stated.  A run hands at most one message to the transport,        *)
(* whatever the transport returns.                                         *)
C9_Original == Ran => Len(posts) <= 1

(* C9 as amended.  The first matching branch in priority order excludes    *)
(* every lower one: a missed-cut snapshot posts only the missed-cut        *)
(* message, a tee-time-pending one only the tee-time message, a finished   *)
(* one only the round-finish message, each at most once.  In live play a   *)
(* run hands one message to the transport, or two when the score-alert     *)
(* post failed and a milestone is due: then the milestone message follows  *)
(* in the same run.                                                        *)
C9_PriorityShortCircuit ==
    Ran =>
        LET p == Get(player)
        IN  /\ Len(posts) <= 2
            /\ Len(posts) = 2 =>
                  /\ posts[1].cat = "score_alert"
                  /\ ~posts[1].ok
                  /\ posts[2].cat = "milestone"
            /\ Categories \subseteq
                  IF p.missed_cut THEN {"missed_cut"}
                  ELSE IF TeeTimePending(p) THEN {"tee_time"}
                  ELSE IF p.is_done THEN {"round_finish"}
                  ELSE IF p.is_live THEN {"score_alert", "milestone"}
                  ELSE {}

\* a live run whose score-alert post failed and whose milestone post followed
C9_Witness ==
    /\ Ran
    /\ Len(posts) = 2
    /\ Failed("score_alert")
    /\ Delivered("milestone")

(* C10 as stated.  After every run, whichever branch was taken, the        *)
(* returned state's tournament, round, thru, today_score, total_score and  *)
(* position are the snapshot's.                                            *)
C10_Original == Ran => Observed(Get(new_state)) = ObservedOf(Get(player))

(* C10 as amended.  After a run that took the round-finish, live-play or   *)
(* no-message branch, the returned state's tournament, round, thru,        *)
(* today_score, total_score and position are the snapshot's; after a run   *)
(* that took the missed-cut or the tee-time branch they are those of the   *)
(* prior state.                                                            *)
C10_ObservedFieldsCopied ==
    Ran =>
        IF Get(player).missed_cut \/ TeeTimePending(Get(player))
        THEN Observed(Get(new_state)) = Observed(Get(state))
        ELSE Observed(Get(new_state)) = ObservedOf(Get(player))

\* a run past the two early branches whose copy changed every observed field, and
\* the state it was handed already held another tournament's name
C10_Witness ==
    /\ Ran
    /\ ~Get(player).missed_cut
    /\ ~TeeTimePending(Get(player))
    /\ \A i \in 1..6 : Observed(Get(state))[i] # ObservedOf(Get(player))[i]
    /\ Observed(Get(new_state)) = ObservedOf(Get(player))

---------------------------------------------------------------------------
(* Runs in sequence.  The history counts what the runs delivered since the *)
(* tournament last changed (cut, flag) and since the round or the          *)
(* tournament last changed (tee, finish, six, twelve, alerts).             *)

(* C11.  Over the runs of one tournament, once a returned state has        *)
(* missed_cut set, the state returned by every later run has it set, and   *)
(* the missed-cut message is delivered at most once.                       *)
C11_MissedCutSticky ==
    /\ history.flag => file.data.missed_cut
    /\ history.cut <= 1

\* a later run of the tournament in which the message was delivered: the snapshot is
\* again a missed cut, the flag is still set and nothing is posted
C11_Witness ==
    /\ Ran
    /\ history.cut = 1
    /\ Get(player).missed_cut
    /\ Get(loaded).missed_cut
    /\ Get(new_state).missed_cut
    /\ posts = <<>>

(* C12.  Over the runs of one tournament in which the snapshot's round     *)
(* never decreases, the tee-time message is delivered at most once per     *)
(* round and the round-finish message at most once per round.  In such a   *)
(* sequence the runs of one round follow each other, so the deliveries of  *)
(* a round are those counted since the round last changed.                 *)
C12_OncePerRound ==
    /\ history.tee <= 1
    /\ history.finish <= 1

\* the second round of a tournament, after its tee-time and its round-finish message
\* were delivered: a further run over the finished round posts nothing
C12_Witness ==
    /\ Ran
    /\ Get(player).round = 2
    /\ Get(player).is_done
    /\ history.tee = 1
    /\ history.finish = 1
    /\ Get(loaded).tournament = Some(Get(player).tournament)
    /\ Get(loaded).round = Some(2)
    /\ posts = <<>>

\* the milestone messages the last run handed to the transport
MilestoneAttempts == {k \in 1..Len(posts) : posts[k].cat = "milestone"}

(* C13 as stated.  Over the runs of one round of one tournament each       *)
(* milestone (6 and 12) is announced at most once, a run attempts at most  *)
(* one milestone message, and after a milestone message was delivered at   *)
(* thru = 6 a further run with thru = 6 delivers nothing.                  *)
C13_Original ==
    /\ history.six <= 1
    /\ history.twelve <= 1
    /\ Ran => Cardinality(MilestoneAttempts) <= 1
    /\ (Ran /\ history.six_before /\ Get(player).thru = Some(6)) =>
          \A k \in 1..Len(posts) : ~posts[k].ok

(* C13 as amended.  Over the runs of one round of one tournament each      *)
(* milestone (6 and 12) is announced at most once and a run attempts at    *)
(* most one milestone message; after a milestone message was delivered at  *)
(* thru = 6, a further run with thru = 6 attempts no milestone message,    *)
(* and it posts nothing when its snapshot is not a missed cut and the      *)
(* saved thru is 6.                                                        *)
C13_MilestoneOnce ==
    /\ history.six <= 1
    /\ history.twelve <= 1
    /\ Ran => Cardinality(MilestoneAttempts) <= 1
    /\ (Ran /\ history.six_before /\ Get(player).thru = Some(6)) =>
          /\ MilestoneAttempts = {}
          /\ (~Get(player).missed_cut /\ Get(state).thru = Some(6)) => posts = <<>>

\* the run after the milestone message for hole 6 was delivered at thru = 6: the
\* snapshot is still at thru = 6 and nothing is posted
C13_Witness ==
    /\ Ran
    /\ history.six_before
    /\ history.six = 1
    /\ Get(player).is_live
    /\ Get(player).thru = Some(6)
    /\ Get(state).thru = Some(6)
    /\ ~Get(player).missed_cut
    /\ posts = <<>>

---------------------------------------------------------------------------
(* The branches of the decision engine, one by one.                        *)

(* C14.  When the snapshot is not a missed cut, its tee time contains a    *)
(* digit and is_live and is_done are both false, the run attempts the      *)
(* tee-time message exactly when the state's tee_time_tweeted_round        *)
(* differs from the snapshot's round, attempts no other message, and       *)
(* returns the state it was handed except possibly for                     *)
(* tee_time_tweeted_round.                                                 *)
C14_TeeTimeFrame ==
    (Ran /\ ~Get(player).missed_cut /\ AnyDigit(Get(player).tee_time)
         /\ ~Get(player).is_live /\ ~Get(player).is_done) =>
        /\ Attempted("tee_time") <=>
              Get(state).tee_time_tweeted_round # Some(Get(player).round)
        /\ Categories \subseteq {"tee_time"}
        /\ Len(posts) <= 1
        /\ Get(new_state) =
              [Get(state) EXCEPT
                  !.tee_time_tweeted_round = Get(new_state).tee_time_tweeted_round]

\* a tee time in a later round than the one announced before: the message is
\* delivered, the marker moves to the snapshot's round and the saved round and thru
\* stay those of the earlier round
C14_Witness ==
    /\ Ran
    /\ ~Get(player).missed_cut
    /\ TeeTimePending(Get(player))
    /\ Get(state).tee_time_tweeted_round = Some(1)
    /\ Get(state).thru = Some(18)
    /\ Get(player).round = 2
    /\ Delivered("tee_time")
    /\ Get(new_state).tee_time_tweeted_round = Some(2)
    /\ Get(new_state).round = Some(1)

(* C15.  When the snapshot is done (and neither a missed cut nor           *)
(* tee-time-pending), the run attempts the round-finish message exactly    *)
(* when the state's round_finish_tweeted differs from the snapshot's       *)
(* round; on delivery it sets that marker to the round and                 *)
(* last_hole_milestone to 18; it attempts no score alert and no milestone  *)
(* message; and the returned state carries the snapshot's tournament,      *)
(* round, thru, scores and position whether or not the post succeeded.     *)
C15_RoundFinish ==
    (Ran /\ Get(player).is_done /\ ~Get(player).missed_cut
         /\ ~TeeTimePending(Get(player))) =>
        /\ Attempted("round_finish") <=>
              Get(state).round_finish_tweeted # Some(Get(player).round)
        /\ Delivered("round_finish") =>
              /\ Get(new_state).round_finish_tweeted = Some(Get(player).round)
              /\ Get(new_state).last_hole_milestone = Some(18)
        /\ Categories \subseteq {"round_finish"}
        /\ Len(posts) <= 1
        /\ Observed(Get(new_state)) = ObservedOf(Get(player))

\* a finished round whose message failed to post: the marker stays and the
\* snapshot's fields are saved all the same
C15_Witness ==
    /\ Ran
    /\ Get(player).is_done
    /\ Failed("round_finish")
    /\ Get(new_state).round_finish_tweeted = Get(state).round_finish_tweeted
    /\ Observed(Get(state)) # ObservedOf(Get(player))
    /\ Observed(Get(new_state)) = ObservedOf(Get(player))

\* the run took the live-play branch
LivePlay == Ran /\ Get(player).is_live /\ ~Get(player).missed_cut

\* the state as the live-play steps find it: after the reset of the per-round counters
AtLivePlay == ResetRoundCounters(Get(player), Get(state))

\* the event of the run, as the classifier gives it
EventAtLivePlay ==
    detect_score_event(AtLivePlay.today_score, Get(player).today_score,
                       AtLivePlay.thru, Get(player).thru)

(* C16.  In a live-play run a score alert is attempted exactly when        *)
(* detect_score_event applied to the state's today_score and thru and the  *)
(* snapshot's gives an event and the snapshot's thru is greater than the   *)
(* state's last_alert_hole (0 when unset), the state being the one the     *)
(* step finds; on delivery last_alert_hole becomes the snapshot's thru;    *)
(* and the score alerts delivered within one round have strictly           *)
(* increasing holes.                                                       *)
C16_ScoreAlert ==
    /\ LivePlay =>
          /\ Attempted("score_alert") <=>
                /\ EventAtLivePlay # None
                /\ Get(Get(player).thru) > OrInt(AtLivePlay.last_alert_hole, 0)
          /\ Delivered("score_alert") =>
                Get(new_state).last_alert_hole = Get(player).thru
    /\ Len(history.alerts) = 2 => history.alerts[1] < history.alerts[2]

\* the second score alert of a round, delivered at a later hole than the first
C16_Witness ==
    /\ LivePlay
    /\ Delivered("score_alert")
    /\ Get(state).last_alert_hole = Some(6)
    /\ Get(new_state).last_alert_hole = Some(7)
    /\ history.alerts = <<6, 7>>

\* the milestones due in the run: reached by the snapshot's thru and above the last
\* milestone the state records
PendingMilestones ==
    {m \in UPDATE_MILESTONES :
        Get(Get(player).thru) >= m /\ m > OrInt(AtLivePlay.last_hole_milestone, 0)}

(* C17.  Whenever a live-play run delivers a score alert at hole h while a *)
(* milestone m with h >= m > last_hole_milestone (0 when unset) is due,    *)
(* the run sets last_alert_hole to h, advances last_hole_milestone to the  *)
(* smallest such milestone and attempts no milestone message.              *)
C17_AlertAbsorbsMilestone ==
    (LivePlay /\ Delivered("score_alert") /\ PendingMilestones # {}) =>
        /\ Get(new_state).last_alert_hole = Get(player).thru
        /\ \E m \in PendingMilestones :
              /\ \A o \in PendingMilestones : m <= o
              /\ Get(new_state).last_hole_milestone = Some(m)
        /\ ~Attempted("milestone")

\* state {round 2, thru 5, today 0} and snapshot {round 2, thru 6, today -2, live}:
\* one eagle alert, last_alert_hole = 6 and last_hole_milestone = 6
C17_Witness ==
    /\ LivePlay
    /\ Get(state).round = Some(2)
    /\ Get(state).thru = Some(5)
    /\ Get(state).today_score = Some(0)
    /\ Get(state).last_hole_milestone = None
    /\ Get(player).round = 2
    /\ Get(player).thru = Some(6)
    /\ Get(player).today_score = Some(0 - 2)
    /\ posts = <<[cat |-> "score_alert", event |-> "eagle", ok |-> TRUE]>>
    /\ Get(new_state).last_alert_hole = Some(6)
    /\ Get(new_state).last_hole_milestone = Some(6)

---------------------------------------------------------------------------
(* The score-change classifier.                                            *)

\* the call returned: its four arguments, all set
Classified == args # None /\ result # None /\ \A i \in 1..4 : Get(args)[i] # None

HolesAdvanced == Get(Get(args)[4]) - Get(Get(args)[3])

TodayDelta == Get(Get(args)[2]) - Get(Get(args)[1])

CalledWith(ot, nt, oh, nh) == args = Some(<<Some(ot), Some(nt), Some(oh), Some(nh)>>)

(* C18.  detect_score_event returns None if an argument is None or the     *)
(* holes advanced are not positive; otherwise, with n holes advanced and   *)
(* delta the change of today's score, "eagle" if delta <= -2n, else        *)
(* "birdie_run" if delta <= -3 and n <= 2, else "double+" if delta >= 2n,  *)
(* else None; (0,-2,5,6) gives "eagle", (0,2,5,6) "double+" and (0,-1,5,6) *)
(* None.                                                                   *)
C18_Classifier ==
    /\ (args # None /\ result # None /\ ~Classified) => Get(result) = None
    /\ (Classified /\ HolesAdvanced <= 0) => Get(result) = None
    /\ (Classified /\ HolesAdvanced > 0) =>
          Get(result) =
              IF TodayDelta <= (0 - 2) * HolesAdvanced THEN Some("eagle")
              ELSE IF TodayDelta <= 0 - 3 /\ HolesAdvanced <= 2 THEN Some("birdie_run")
              ELSE IF TodayDelta >= 2 * HolesAdvanced THEN Some("double+")
              ELSE None
    /\ (result # None /\ CalledWith(0, 0 - 2, 5, 6)) => Get(result) = Some("eagle")
    /\ (result # None /\ CalledWith(0, 2, 5, 6)) => Get(result) = Some("double+")
    /\ (result # None /\ CalledWith(0, 0 - 1, 5, 6)) => Get(result) = None

\* three under par over two holes: not two under per hole, so a birdie run
C18_Witness ==
    /\ Classified
    /\ HolesAdvanced = 2
    /\ TodayDelta = 0 - 3
    /\ Get(result) = Some("birdie_run")

---------------------------------------------------------------------------
(* main around the engine.                                                 *)

\* the run stopped at a failed fetch, at no active event or at no player data
Stopped == outcome \in {"fetch_failed", "no_event", "no_player"}

\* the positions of a call in the log of the run
Calls(name) == {k \in 1..Len(log) : log[k] = name}

(* C19.  A run that stops at a fetch that failed after all retries, at no  *)
(* active event or at no player data posts nothing and leaves the state    *)
(* file as it was, whatever reset it made in memory; every other run that  *)
(* passes the hour gate calls save_state exactly once, after every         *)
(* post_tweet call of the run, with the state the engine returned.         *)
C19_SaveOnlyAfterEngine ==
    /\ [](Stopped => posts = <<>> /\ Calls("post_tweet") = {} /\ Calls("save_state") = {})
    /\ [][Stopped' => file' = file]_vars
    /\ []((outcome \notin {"idle", "outside_hours"} /\ ~Stopped) =>
            /\ Calls("save_state") = {Len(log)}
            /\ Cardinality(Calls("post_tweet")) = Len(posts)
            /\ file = save_state(Get(new_state)))

\* a run that reset the state in memory for a new tournament and then stopped: the
\* file still holds the earlier tournament's state
C19_Witness ==
    /\ Stopped
    /\ Get(loaded).tournament # None
    /\ Get(state) = DEFAULT_STATE
    /\ file = save_state(Get(loaded))

(* C20.  A run proceeds exactly when the local hour h satisfies            *)
(* 6 <= h <= 22; at every other hour the run fetches nothing, posts        *)
(* nothing and neither loads nor saves the state.                          *)
C20_HourGate ==
    /\ [](hour # None =>
            (outcome # "outside_hours" <=> (6 <= Get(hour) /\ Get(hour) <= 22)))
    /\ [](outcome = "outside_hours" => log = <<>> /\ posts = <<>> /\ loaded = None)
    /\ [][outcome' = "outside_hours" => file' = file]_vars

\* a run at 22 h that reached the engine and posted
C20_Witness ==
    /\ hour = Some(22)
    /\ Ran
    /\ Calls("fetch") # {}
    /\ posts # <<>>

---------------------------------------------------------------------------
(* The helper functions.                                                   *)

\* the call returned
Returned == args # None /\ result # None

\* the attempts of the fetch call that gave a document
Succeeded == {k \in 1..RETRIES : Get(args)[k] # None}

(* C21.  fetch makes at most 3 HTTP attempts, returns the document of the  *)
(* first attempt that succeeds and makes no attempt after it, sleeps       *)
(* delay * k after the k-th failed attempt for k < 3 and not after the     *)
(* third, returns None after 3 failures, and returns for every sequence of *)
(* attempt outcomes.                                                       *)
C21_FetchRetries ==
    /\ args # None => ENABLED CallFetch \/ result # None
    /\ Returned =>
          /\ Get(result).calls <= 3
          /\ \A k \in Succeeded :
                (\A j \in Succeeded : k <= j) =>
                    /\ Get(result).data = Get(args)[k]
                    /\ Get(result).calls = k
                    /\ Get(result).sleeps = [j \in 1..(k - 1) |-> 2 * j]
          /\ Succeeded = {} =>
                /\ Get(result).data = None
                /\ Get(result).calls = 3
                /\ Get(result).sleeps = <<2, 4>>

\* two failures and then a document: three calls, sleeps of 2 and 4 seconds
C21_Witness ==
    /\ Returned
    /\ Succeeded = {3}
    /\ Get(result).data = Get(args)[3]
    /\ Get(result).calls = 3
    /\ Get(result).sleeps = <<2, 4>>

\* load_state returned, for the first time or after the save
Loaded == Returned /\ Get(result).call \in {"load_state", "load_state_again"}

(* C22.  load_state returns the saved record merged over the defaults:     *)
(* every default key is present, the keys of the file have the file's      *)
(* values, every other key its default, and a missing file or invalid JSON *)
(* gives the defaults; and load_state after save_state(s) returns s, for   *)
(* every s with all the default keys; on such records the state file of    *)
(* main's runs agrees with the text.                                       *)
C22_LoadMergesOverDefaults ==
    /\ Loaded =>
          /\ DOMAIN DEFAULT_STATE \subseteq DOMAIN Get(result).value
          /\ Get(args).kind \in {"missing", "invalid"} =>
                Get(result).value = DEFAULT_STATE
          /\ Get(args).kind = "object" =>
                /\ DOMAIN Get(result).value
                      = DOMAIN DEFAULT_STATE \cup DOMAIN Get(args).of
                /\ \A k \in DOMAIN Get(args).of :
                      Get(result).value[k] = Get(args).of[k]
                /\ \A k \in DOMAIN DEFAULT_STATE \ DOMAIN Get(args).of :
                      Get(result).value[k] = DEFAULT_STATE[k]
    /\ (Returned /\ Get(result).call = "load_state_again") =>
          /\ DOMAIN DEFAULT_STATE \subseteq DOMAIN Get(args).of
          /\ Get(result).value = Get(args).of
          /\ Get(result).value = load_state(save_state(Get(args).of))

\* a file with some of the keys, a changed one among them, was loaded, saved and
\* loaded again
C22_Witness ==
    /\ Returned
    /\ Get(result).call = "load_state_again"
    /\ Get(result).value.round = Some(2)
    /\ Get(result).value.today_score = Some(-3)
    /\ Get(result).value.thru = None
    /\ "note" \in DOMAIN Get(result).value
    /\ Get(result).value # DEFAULT_STATE

\* parse_position_num was called with the text t
PositionGiven(t) == result # None /\ args = Some(Some(t))

(* C23.  parse_position_num maps 'Tn' to n and 'nst', 'nnd', 'nrd', 'nth'  *)
(* to n for every rank n >= 1, and maps the empty string, None and text    *)
(* without a digit to None.                                                *)
C23_ParsePositionNum ==
    /\ \A n \in 1..MaxRank :
          /\ PositionGiven(<<"T">> \o NatToStr(n)) => result = Some(Some(n))
          /\ \A x \in OrdinalSuffixes :
                PositionGiven(NatToStr(n) \o x) => result = Some(Some(n))
    /\ (result # None /\ args = None) => result = Some(None)
    /\ \A t \in PositionTexts :
          (PositionGiven(t) /\ ~AnyDigit(t)) => result = Some(None)

\* what the code does with the four suffixes: 'nnd' and 'nrd' give n, 'nst' and
\* 'nth' give None, because the T is removed before the suffix is looked for
C23_SuffixesAsCoded ==
    \A n \in 1..MaxRank :
        /\ PositionGiven(<<"T">> \o NatToStr(n)) => result = Some(Some(n))
        /\ \A x \in {<<"n", "d">>, <<"r", "d">>} :
              PositionGiven(NatToStr(n) \o x) => result = Some(Some(n))
        /\ \A x \in {<<"s", "t">>, <<"t", "h">>} :
              PositionGiven(NatToStr(n) \o x) => result = Some(None)

\* the raw thru field of the competitor get_player_data was given, and the
\* non-negative integer it parses as, if any
RawThru == Get(args).thru

ThruNumber ==
    IF RawThru.k = "int" THEN Some(RawThru.n)
    ELSE IF IsDigitStr(RawThru.s) THEN Some(DigitsToInt(RawThru.s))
    ELSE None

(* C24.  Hole progress from the raw thru field: 'F' in either case gives   *)
(* thru = 18 and is_done; a value that parses as a non-negative integer n  *)
(* gives thru = n, is_done = (n = 18) and is_live = (0 < n < 18); an empty *)
(* or absent value gives thru = None and is_live = is_done = FALSE.        *)
C24_HoleProgress ==
    Returned =>
        /\ (RawThru.k = "str" /\ Upper(RawThru.s) = <<"F">>) =>
              Get(result).thru = Some(18) /\ Get(result).is_done
        /\ \A n \in ThruNumber :
              /\ Get(result).thru = Some(n)
              /\ Get(result).is_done = (n = 18)
              /\ Get(result).is_live = (0 < n /\ n < 18)
        /\ (RawThru.k = "absent" \/ (RawThru.k = "str" /\ RawThru.s = <<>>)) =>
              /\ Get(result).thru = None
              /\ ~Get(result).is_live
              /\ ~Get(result).is_done

\* what the code does: the JSON number 0 is taken for an absent value, and a count
\* above 18 is live play
C24_HoleProgressAsCoded ==
    Returned =>
        /\ (RawThru.k = "str" /\ Upper(RawThru.s) = <<"F">>) =>
              Get(result).thru = Some(18) /\ Get(result).is_done
        /\ \A n \in ThruNumber :
              /\ Get(result).thru = (IF RawThru.k = "int" /\ n = 0 THEN None ELSE Some(n))
              /\ Get(result).is_done = (n = 18)
              /\ Get(result).is_live = (0 < n /\ n # 18)
        /\ (RawThru.k = "absent" \/ (RawThru.k = "str" /\ RawThru.s = <<>>)) =>
              /\ Get(result).thru = None
              /\ ~Get(result).is_live
              /\ ~Get(result).is_done

(* C25.  In every Snapshot built by get_player_data is_live and is_done    *)
(* are never both true, is_done implies thru = 18, and both are false      *)
(* exactly when thru is None or 0.                                         *)
C25_LiveDoneExclusive ==
    Returned =>
        /\ ~(Get(result).is_live /\ Get(result).is_done)
        /\ Get(result).is_done => Get(result).thru = Some(18)
        /\ (~Get(result).is_live /\ ~Get(result).is_done)
              <=> Get(result).thru \in {None, Some(0)}

\* a Snapshot with thru = 0, neither live nor done
C25_Witness ==
    /\ Returned
    /\ Get(result).thru = Some(0)
    /\ ~Get(result).is_live
    /\ ~Get(result).is_done

\* parse_score was called with the text t; fmt was called with the score sc
Parsed(t) ==
    Returned /\ Get(args).f = "parse_score" /\ Get(args).raw = Some(t)

Formatted(sc) == Returned /\ Get(args).f = "fmt" /\ Get(args).score = sc

C27_RoundTrip ==
    /\ \A n \in 1..MaxScore :
          \A t \in {<<"+">> \o NatToStr(n), <<"-">> \o NatToStr(n)} :
              Parsed(t) => Get(result).text = t
    /\ Parsed(<<"E">>) => Get(result).text = <<"E">>
    /\ \A n \in (0 - MaxScore)..MaxScore :
          Formatted(Some(n)) => Get(result).parsed = Some(n)

\* fmt(-11) was parsed back to -11
C27_Witness ==
    /\ Formatted(Some(-11))
    /\ Get(result).text = <<"-", "1", "1">>
    /\ Get(result).parsed = Some(-11)

(* C28.  Every text post_tweet hands to the posting transport has at most  *)
(* 280 characters, for every rendered message of every category; it is    *)
(* the rendered message up to that length.                                 *)
C28_AtMost280 ==
    Returned =>
        \A i \in 1..Len(Get(result).sent) :
            /\ Len(Get(result).sent[i]) <= 280
            /\ Get(result).sent[i]
                  = SubSeq(Get(result).text, 1, Len(Get(result).sent[i]))
            /\ Len(Get(result).text) <= 280 => Get(result).sent[i] = Get(result).text

\* a rendered score alert of more than 280 characters was handed to the transport
\* twice, cut to 280
C28_Witness ==
    /\ Returned
    /\ Get(args).m.cat = "score_alert"
    /\ Len(Get(result).text) > 280
    /\ Len(Get(result).sent) = 2
    /\ Len(Get(result).sent[2]) = 280

\* the tokens of the claim
CutTokens ==
    {<<"C", "U", "T">>, <<"M", "C">>, <<"W", "D">>, <<"D", "Q">>, <<"R", "T", "D">>,
     <<"M", "D", "F">>}

\* the status type name holds 'cut' in any case; the status display value, trimmed
\* and uppercased, is a token
TypeSaysCut == Contains(Lower(Get(args).type_name), <<"c", "u", "t">>)

DisplaySaysCut == Strip(Upper(Get(args).displayValue)) \in CutTokens

(* C29 as amended.  The Snapshot's missed_cut is true if and only if the   *)
(* status type name contains 'cut' (case-insensitive), or the raw          *)
(* position, uppercased, equals one of CUT, MC, WD, DQ, RTD, MDF, or the   *)
(* trimmed, uppercased status display value equals one of them; and the    *)
(* Snapshot's position is the empty string whenever the uppercased raw     *)
(* position is one of those tokens.                                        *)
C29_MissedCutSignals ==
    Returned =>
        /\ Get(result).missed_cut
              <=> (TypeSaysCut \/ Upper(Get(args).position) \in CutTokens \/ DisplaySaysCut)
        /\ Upper(Get(args).position) \in CutTokens => Get(result).position = <<>>

\* a position of 'mdf' in lower case, with nothing else saying cut, gave a missed-cut
\* Snapshot with an empty position
C29_Witness ==
    /\ Returned
    /\ Get(args).position = <<"m", "d", "f">>
    /\ ~TypeSaysCut
    /\ ~DisplaySaysCut
    /\ Get(result).missed_cut
    /\ Get(result).position = <<>>

(* C29 as stated.  missed_cut is true if and only if the status type name  *)
(* contains 'cut' (case-insensitive), or the raw position equals one of    *)
(* the tokens, or the trimmed, uppercased status display value equals one  *)
(* of them; and the position is empty whenever the raw position is one of  *)
(* the tokens.                                                             *)
C29_Original ==
    Returned =>
        /\ Get(result).missed_cut
              <=> (TypeSaysCut \/ Get(args).position \in CutTokens \/ DisplaySaysCut)
        /\ Get(args).position \in CutTokens => Get(result).position = <<>>

---------------------------------------------------------------------------
(* Quiescence.                                                             *)

\* the Snapshot the feed has settled at
Settled == Get(args).p

\* the history counts what was delivered for the settled tournament and round
HistoryOfSettled ==
    /\ history.name = Some(Settled.tournament)
    /\ history.round = Some(Settled.round)

\* the message the settled Snapshot calls for, by the engine's order of precedence
CutDue == Settled.missed_cut

TeeDue == ~CutDue /\ TeeTimePending(Settled)

FinishDue == ~CutDue /\ ~TeeDue /\ Settled.is_done

MilestonesDue ==
    IF ~CutDue /\ ~TeeDue /\ ~Settled.is_done /\ Settled.is_live
    THEN {m \in UPDATE_MILESTONES : Get(Settled.thru) >= m}
    ELSE {}

\* every message that is due has been delivered; a milestone counts as delivered
\* when a score alert was delivered at the settled hole
DueDelivered ==
    /\ CutDue => HistoryOfSettled /\ history.cut >= 1
    /\ TeeDue => HistoryOfSettled /\ history.tee >= 1
    /\ FinishDue => HistoryOfSettled /\ history.finish >= 1
    /\ MilestonesDue # {} =>
          /\ HistoryOfSettled
          /\ \/ \E k \in 1..Len(history.alerts) : history.alerts[k] = Get(Settled.thru)
             \/ /\ 6 \in MilestonesDue => history.six >= 1
                /\ 12 \in MilestonesDue => history.twelve >= 1

\* nothing is due any more, and a run that got to the engine attempted no post and
\* saved the state it loaded
QuietNow ==
    /\ DueDelivered
    /\ outcome = "saved" => posts = <<>> /\ Get(new_state) = Get(loaded)

(* C30.  Once the Snapshot no longer changes, under serialized runs and a  *)
(* transport that eventually delivers every retried post, the system       *)
(* reaches a quiescent state and stays there: every message that is due    *)
(* (missed cut, tee time, round finish or milestone) has been delivered,   *)
(* and every later run attempts no post and saves the same state.          *)
C30_Quiescence == <>[](args # None => QuietNow)

\* the same when the feed has been at the settled Snapshot since before the first run
C30_QuiescenceFromNoFile == <>[]((args # None /\ Get(args).fresh) => QuietNow)

\* a run over the settled Snapshot of tournament B, a missed cut, posts nothing and
\* saves what it loaded although no missed-cut message was delivered for B
C30_StuckUndelivered ==
    /\ args # None
    /\ CutDue
    /\ HistoryOfSettled
    /\ history.cut = 0
    /\ outcome = "saved"
    /\ posts = <<>>
    /\ Get(new_state) = Get(loaded)

---------------------------------------------------------------------------
(* Score alerts and milestones across rounds.                              *)

(* C31.  A score alert comes only from a baseline of the same round: in a  *)
(* live-play run whose snapshot's round differs from the state's round no  *)
(* score alert is attempted, whatever today_score and thru the earlier     *)
(* round left in the state.                                                *)
C31_AlertFromSameRound ==
    (LivePlay /\ Get(state).round # Some(Get(player).round)) =>
        ~Attempted("score_alert")

\* the same with a baseline of the same round left out of the precondition: a run
\* whose state has no round at all attempts no score alert
C31_NoAlertWithoutBaseline ==
    (LivePlay /\ Get(state).round = None) => ~Attempted("score_alert")

\* the run moved last_hole_milestone on from what the live-play steps found
MarkerAdvanced ==
    Get(new_state).last_hole_milestone # AtLivePlay.last_hole_milestone

(* C32.  A milestone marker is advanced without a milestone message only   *)
(* in a run in which a score alert was delivered for the current hole; in  *)
(* every other live-play run in which a milestone m with                   *)
(* thru >= m > last_hole_milestone (0 when unset) is pending, the          *)
(* milestone message is attempted.                                         *)
C32_SilentAdvanceOnlyOnAlert ==
    LivePlay =>
        /\ (MarkerAdvanced /\ ~Attempted("milestone")) => Delivered("score_alert")
        /\ (PendingMilestones # {} /\ ~Delivered("score_alert")) => Attempted("milestone")

\* what the code does: with a milestone pending the message is attempted unless
\* last_alert_hole, as the run or an earlier run left it, is the snapshot's thru
C32_SilentAdvanceAsCoded ==
    LivePlay =>
        /\ (MarkerAdvanced /\ ~Attempted("milestone")) =>
              Get(new_state).last_alert_hole = Get(player).thru
        /\ PendingMilestones # {} =>
              (Attempted("milestone")
                  <=> Get(new_state).last_alert_hole # Get(player).thru)

\* the ledger has kind k for the round and the tournament of the saved state s
LedgerHas(s, k) ==
    /\ s.tournament # None
    /\ s.round # None
    /\ <<Get(s.tournament), Get(s.round), k>> \in result

(* C33.  In every saved state, last_hole_milestone = 6 or 12 means that a  *)
(* milestone message or a score alert reporting thru >= that milestone was *)
(* delivered in the state's round of the state's tournament, in the run    *)
(* that saved it or an earlier one; and last_hole_milestone = 18 means     *)
(* that the round-finish message of that round was delivered.              *)
C33_MarkerMeansDelivered ==
    LET s == file.data
    IN  /\ s.last_hole_milestone = Some(6)  => LedgerHas(s, "six")
        /\ s.last_hole_milestone = Some(12) => LedgerHas(s, "twelve")
        /\ s.last_hole_milestone = Some(18) => LedgerHas(s, "finish")

\* a saved state with the marker at 12 after a run that delivered nothing: the
\* deliveries were those of earlier runs
C33_Witness ==
    /\ Ran
    /\ \A k \in 1..Len(posts) : ~posts[k].ok
    /\ file.data.last_hole_milestone = Some(12)
    /\ LedgerHas(file.data, "twelve")

\* the marker at 18 in a saved state
C33_WitnessFinish ==
    /\ Ran
    /\ file.data.last_hole_milestone = Some(18)
    /\ LedgerHas(file.data, "finish")

---------------------------------------------------------------------------
(* The score events.                                                       *)

---------------------------------------------------------------------------
(* Overlapping runs.                                                       *)

\* no run is between its load_state and the end of its save_state
AllIdle == \A i \in Runs : args[i].pc = "idle"

\* the saved state has the marker that a delivery of category cat sets
MarkerSaved(cat) ==
    /\ file.exists
    /\ CASE cat = "tee_time"     -> file.data.tee_time_tweeted_round = Some(1)
         [] cat = "round_finish" -> file.data.round_finish_tweeted = Some(1)
         [] cat = "milestone"    -> file.data.last_hole_milestone # None

(* C35.  As long as every run's load, decide, post and save completes      *)
(* before the next run's load, each category is delivered at most once in  *)
(* the round and, between runs, the saved state has the marker of every    *)
(* delivery; runs that overlap so that both load before either saves can   *)
(* deliver the same category twice, and the later save overwrites the      *)
(* earlier run's markers (C35_Witness).                                    *)
C35_OnceWhenSerialized ==
    ~result.overlapped =>
        \A cat \in OverlapCategories :
            /\ result.delivered[cat] <= 1
            /\ (AllIdle /\ result.delivered[cat] = 1) => MarkerSaved(cat)

\* after overlapping runs: the tee-time message was delivered twice and the saved
\* state has lost the marker of the milestone message that was delivered
C35_Witness ==
    /\ result.overlapped
    /\ AllIdle
    /\ result.delivered["tee_time"] = 2
    /\ result.delivered["milestone"] = 1
    /\ ~MarkerSaved("milestone")

\* serialized runs: a delivery and its marker
C35_WitnessSerialized ==
    /\ ~result.overlapped
    /\ AllIdle
    /\ result.delivered["tee_time"] = 1
    /\ MarkerSaved("tee_time")

---------------------------------------------------------------------------
(* The posting transport.                                                  *)

\* the first create_tweet call was made and raised
FirstCallRaised ==
    /\ Len(Get(result).sent) >= 1
    /\ ~Get(args).answers[1]

(* C36.  _post_async calls create_tweet at most twice, each time with the  *)
(* message.  When the first call raises, the cached client is cleared and  *)
(* the cookie file deleted, so that the client of the second call, if any, *)
(* comes from a new login, and the call is retried once.  It returns True  *)
(* if and only if one of its calls succeeded; when no client can be        *)
(* obtained, at the start or for the retry, it returns False with no       *)
(* further call.                                                           *)
C36_PostAsync ==
    Returned =>
        LET r    == Get(result)
            a    == Get(args)
            made == Len(r.sent)
        IN  /\ made <= 2
            /\ \A k \in 1..made : r.sent[k] = a.text
            /\ r.ok <=> \E k \in 1..made : a.answers[k]
            /\ made = 2 <=> (FirstCallRaised /\ r.clients = <<TRUE, TRUE>>)
            /\ FirstCallRaised =>
                  /\ r.logins = (IF a.session.secrets THEN 1 ELSE 0)
                  /\ r.clients[2] <=> (a.session.secrets /\ a.login_oks[2])
                  /\ ~r.clients[2] => (~r.session.twikit /\ ~r.session.cookies)
            /\ ~r.clients[Len(r.clients)] => (~r.ok /\ made = Len(r.clients) - 1)
            /\ made = Len(post_async(a.text, r.clients \o <<FALSE>>, a.answers).sent)
            /\ r.ok = post_async(a.text, r.clients \o <<FALSE>>, a.answers).ok

\* the first call raised with loadable cookies at hand; after the new login the
\* second call went through
C36_Witness ==
    /\ Returned
    /\ Get(args).session.cookies /\ Get(args).session.loadable
    /\ FirstCallRaised
    /\ Get(result).logins = 1
    /\ Len(Get(result).sent) = 2
    /\ Get(result).ok

\* no client for the retry: one call, False
C36_WitnessNoClient ==
    /\ Returned
    /\ FirstCallRaised
    /\ Get(result).clients = <<TRUE, FALSE>>
    /\ Len(Get(result).sent) = 1
    /\ ~Get(result).ok

---------------------------------------------------------------------------
(* The earlier revision.                                                   *)

(* C37.  pga_bot2 posts a tweet only if the golfer's status changed since  *)
(* the last posted tweet: of two consecutive runs over identical           *)
(* leaderboard data at most one posts; and the stored last status is       *)
(* written only after a post that did not raise.                           *)
C37_PostsOnlyOnChange ==
    result # None =>
        /\ (Get(result).same /\ Get(result).before) => ~Get(result).posted
        /\ Get(result).saved => Get(result).posted

\* what the script does: it posts when the text rendered in this run differs from
\* the stored text, and stores the text after a post that returned
C37_PostsOnNewText ==
    result # None =>
        /\ Get(result).unchanged => ~Get(result).called
        /\ Get(result).saved <=> Get(result).posted
        /\ Get(result).posted => Get(result).called
        /\ Get(result).posted =>
              /\ args.kind = "object"
              /\ load_last_status(args) # None

\* the second of two runs over the same data posted again
C37_SecondPost ==
    /\ result # None
    /\ Get(result).same
    /\ Get(result).before
    /\ Get(result).posted

=============================================================================
